---- MODULE Spec2Model ----
(***************************************************************************)
(* Boussole geo-economic intelligence engine: the Redis-backed geo cache   *)
(* (app/services/geo_cache_service.py) and the geographic intelligence     *)
(* service (app/services/geo_intelligence_service.py).                     *)
(*                                                                         *)
(* Conventions of the model                                                *)
(*  - a coordinate is an integer number of 0.0001 degrees (lat 36.75 is    *)
(*    367500); exact decimal ties (last digit 5) are kept out of the       *)
(*    coordinate sets, a binary float never sits exactly on one;           *)
(*  - an Optional[T] value is a sequence of length 0 (None) or 1;          *)
(*  - a Python/JSON value handed to the cache is tagged with its type      *)
(*    (PyList, PyDict, PyNone, ...) so that truthiness can be computed;    *)
(*  - the text stored in Redis is a record of kind "json" (a document,     *)
(*    with the value it denotes), "garbage" (bytes that are not JSON) or   *)
(*    "empty" (the empty string);                                          *)
(*  - a rating is an integer number of tenths (4.2 is 42), a score term is *)
(*    an integer number of tenths of a point.                              *)
(***************************************************************************)
EXTENDS Integers, Sequences, FiniteSets, TLC

VARIABLES settings, svc, storeMode, store, provider, db, tasks, last, ncalls

vars == <<settings, svc, storeMode, store, provider, db, tasks, last, ncalls>>

(***************************************************************************)
(* Python helpers                                                          *)
(***************************************************************************)
None == <<>>

Some(v) == <<v>>

IsNone(o) == Len(o) = 0

Val(o) == o[1]

PyNone == [t |-> "none"]

PyList(s) == [t |-> "list", v |-> s]

PyDict(d) == [t |-> "dict", v |-> d]

\* a value json.dumps cannot serialise even with default=str (a container
\* that contains itself raises ValueError: Circular reference detected)
PyCircular == [t |-> "circular"]

\* bool(x) of a tagged Python value
Truthy(x) ==
    CASE x.t = "none" -> FALSE
      [] x.t = "list" -> Len(x.v) > 0
      [] x.t = "dict" -> DOMAIN x.v # {}
      [] x.t = "int"  -> x.v # 0
      [] x.t = "str"  -> x.v # ""
      [] OTHER        -> TRUE

\* bool(s) of an Optional[str]
TruthyStr(o) == ~IsNone(o) /\ Val(o) # ""

\* bool(n) of an Optional[int]
TruthyInt(o) == ~IsNone(o) /\ Val(o) # 0

Abs(n) == IF n < 0 THEN -n ELSE n

Min2(a, b) == IF a <= b THEN a ELSE b

Max2(a, b) == IF a >= b THEN a ELSE b

\* floor(num / den) for den > 0 and any integer num
FloorDiv(num, den) == IF num >= 0 THEN num \div den ELSE -(((-num) + den - 1) \div den)

\* Python round(num / den) for den > 0: nearest integer, ties to the even one
PyRound(num, den) ==
    LET fl  == FloorDiv(num, den)
        rem == num - fl * den
    IN  IF 2 * rem > den THEN fl + 1
        ELSE IF 2 * rem < den THEN fl
        ELSE IF fl % 2 = 0 THEN fl ELSE fl + 1

\* json.dumps(data, default=str): the document text, or an exception
json_dumps(data) ==
    IF data.t = "circular" THEN [exc |-> TRUE]
    ELSE [exc |-> FALSE, text |-> [kind |-> "json", val |-> data]]

\* json.loads(raw): the value the document denotes, or an exception
json_loads(raw) ==
    IF raw.kind = "json" THEN [exc |-> FALSE, value |-> raw.val]
    ELSE [exc |-> TRUE]

\* bool(raw) of what redis.get returned (None when the key is missing)
TruthyRaw(o) == ~IsNone(o) /\ Val(o).kind # "empty"

(***************************************************************************)
(* GeoCacheService                                                         *)
(***************************************************************************)
Pad3(n) ==
    IF n < 10 THEN "00" \o ToString(n)
    ELSE IF n < 100 THEN "0" \o ToString(n)
    ELSE ToString(n)

\* _round_coord: f"{round(val, 3):.3f}".  round() keeps the sign of a negative
\* value that rounds to zero (-0.0), and the format prints it as "-0.000".
_round_coord(val) ==
    LET a     == Abs(val)
        milli == IF a % 10 >= 5 THEN (a \div 10) + 1 ELSE a \div 10
    IN  (IF val < 0 THEN "-" ELSE "") \o ToString(milli \div 1000) \o "." \o Pad3(milli % 1000)

\* the value round(val, 3) itself, in thousandths of a degree (-0.0 = 0.0)
RoundedMilli(val) ==
    LET a     == Abs(val)
        milli == IF a % 10 >= 5 THEN (a \div 10) + 1 ELSE a \div 10
    IN  IF val < 0 THEN -milli ELSE milli

_build_key(prefix, api, lat, lon, extra) ==
    LET head == prefix \o api \o ":" \o _round_coord(lat) \o ":" \o _round_coord(lon)
    IN  IF extra # "" THEN head \o ":" \o extra ELSE head

\* redis.get(key): the stored text or None
redis_get(st, key) == IF key \in DOMAIN st THEN Some(st[key].raw) ELSE None

\* a write that appends a list to the list already stored under the key
redis_setex_merged(st, key, ttl, text) ==
    [k \in DOMAIN st \cup {key} |->
        IF k # key THEN st[k]
        ELSE IF key \in DOMAIN st /\ st[key].raw.kind = "json" /\ text.kind = "json"
                /\ st[key].raw.val.t = "list" /\ text.val.t = "list"
             THEN [raw |-> [kind |-> "json", val |-> PyList(st[key].raw.val.v \o text.val.v)],
                   ttl |-> ttl]
        ELSE [raw |-> text, ttl |-> ttl]]

\* redis.setex(key, ttl, text)
redis_setex(st, key, ttl, text) ==
    [k \in DOMAIN st \cup {key} |-> IF k = key THEN [raw |-> text, ttl |-> ttl] ELSE st[k]]

\* redis.delete(key)
redis_delete(st, key) == [k \in DOMAIN st \ {key} |-> st[k]]

\* The result of a cache method is [raised, ...]; c is the cache object
\* [redis, prefix, ttl], mode the condition of the Redis server ("live", or
\* "failing": every command raises).

\* if raw: return json.loads(raw) / return None
cache_get_decode(raw) ==
    IF TruthyRaw(raw) THEN json_loads(Val(raw)) ELSE [exc |-> FALSE, value |-> PyNone]

\* the try block of GeoCacheService.get
cache_get_try(c, mode, st, api, lat, lon, extra) ==
    IF mode = "failing" THEN [exc |-> TRUE]
    ELSE cache_get_decode(redis_get(st, _build_key(c.prefix, api, lat, lon, extra)))

\* except Exception: return None
cache_get_except(r) ==
    IF r.exc THEN [raised |-> FALSE, value |-> PyNone]
    ELSE [raised |-> FALSE, value |-> r.value]

\* GeoCacheService.get: it never changes the store
cache_get(c, mode, st, api, lat, lon, extra) ==
    IF ~c.redis THEN [raised |-> FALSE, value |-> PyNone]
    ELSE cache_get_except(cache_get_try(c, mode, st, api, lat, lon, extra))

\* redis.setex(key, ttl or self.ttl, json.dumps(data, default=str))
cache_set_store(mode, st, key, secs, text) ==
    IF text.exc \/ mode = "failing" THEN [exc |-> TRUE]
    ELSE [exc |-> FALSE, st |-> redis_setex(st, key, secs, text.text), wrote |-> {key}]

\* the try block of GeoCacheService.set; ttl is the Optional[int] override
cache_set_try(c, mode, st, api, lat, lon, data, extra, ttl) ==
    cache_set_store(mode, st, _build_key(c.prefix, api, lat, lon, extra),
                    IF TruthyInt(ttl) THEN Val(ttl) ELSE c.ttl, json_dumps(data))

\* cache_set_except without the except clause: the exception propagates
cache_set_reraise(st, r) ==
    IF r.exc THEN [raised |-> TRUE, st |-> st, wrote |-> {}]
    ELSE [raised |-> FALSE, st |-> r.st, wrote |-> r.wrote]

\* except Exception: log a warning
cache_set_except(st, r) ==
    IF r.exc THEN [raised |-> FALSE, st |-> st, wrote |-> {}]
    ELSE [raised |-> FALSE, st |-> r.st, wrote |-> r.wrote]

\* GeoCacheService.set: [raised, st, wrote], the store after the call and
\* the keys written
cache_set(c, mode, st, api, lat, lon, data, extra, ttl) ==
    IF ~c.redis THEN [raised |-> FALSE, st |-> st, wrote |-> {}]
    ELSE cache_set_except(st, cache_set_try(c, mode, st, api, lat, lon, data, extra, ttl))

\* the try block of GeoCacheService.invalidate
cache_invalidate_try(c, mode, st, api, lat, lon, extra) ==
    IF mode = "failing" THEN [exc |-> TRUE]
    ELSE [exc |-> FALSE, st |-> redis_delete(st, _build_key(c.prefix, api, lat, lon, extra))]

\* except Exception: log a warning
cache_invalidate_except(st, r) ==
    IF r.exc THEN [raised |-> FALSE, st |-> st] ELSE [raised |-> FALSE, st |-> r.st]

\* GeoCacheService.invalidate
cache_invalidate(c, mode, st, api, lat, lon, extra) ==
    IF ~c.redis THEN [raised |-> FALSE, st |-> st]
    ELSE cache_invalidate_except(st, cache_invalidate_try(c, mode, st, api, lat, lon, extra))

(***************************************************************************)
(* Settings (app/core/config.py) and the construction of the services      *)
(***************************************************************************)
\* the fields class Settings declares that the geo services read
ConfigFields == {"REDIS_URL", "GOOGLE_API_KEY"}

\* the attributes the two constructors read that class Settings does not
\* declare; Config.extra = "ignore" drops them when the environment sets them
GeoFields == {"GEO_CACHE_PREFIX", "GEO_CACHE_TTL", "GOOGLE_MAPS_API_KEY"}

GeoCacheTtl == 3600

\* Settings(): the object the environment env produces.  env.geo tells whether
\* the deployed Settings class has been extended with the geo fields.
Settings(env) ==
    [declared            |-> IF env.geo THEN ConfigFields \cup GeoFields ELSE ConfigFields,
     GOOGLE_API_KEY      |-> env.google_key,
     GOOGLE_MAPS_API_KEY |-> env.maps_key,
     GEO_CACHE_PREFIX    |-> "geo:",
     GEO_CACHE_TTL       |-> GeoCacheTtl]

\* settings.<name>: AttributeError when the class declares no such field
HasAttr(s, name) == name \in s.declared

\* GeoCacheService.__init__
GeoCacheService_init(s, redis) ==
    IF ~HasAttr(s, "GEO_CACHE_PREFIX") \/ ~HasAttr(s, "GEO_CACHE_TTL")
    THEN [exc |-> TRUE]
    ELSE [exc |-> FALSE,
          cache |-> [redis |-> redis, prefix |-> s.GEO_CACHE_PREFIX, ttl |-> s.GEO_CACHE_TTL]]

\* GeoIntelligenceService.__init__: api_key = MAPS key or the generic key
GeoIntelligenceService_init(s, cache) ==
    IF ~HasAttr(s, "GOOGLE_MAPS_API_KEY") THEN [exc |-> TRUE]
    ELSE IF TruthyStr(s.GOOGLE_MAPS_API_KEY)
         THEN [exc |-> FALSE, api_key |-> s.GOOGLE_MAPS_API_KEY]
    ELSE IF ~HasAttr(s, "GOOGLE_API_KEY") THEN [exc |-> TRUE]
    ELSE [exc |-> FALSE, api_key |-> s.GOOGLE_API_KEY]

Unbuilt == [built |-> "no"]

\* GeoIntelligenceService(cache) of _build_service
build_geo(c, g) ==
    IF g.exc THEN [built |-> "raised"]
    ELSE [built |-> "yes", cache |-> c.cache, api_key |-> g.api_key]

\* GeoCacheService(redis) of _build_service
build_cache(s, c) ==
    IF c.exc THEN [built |-> "raised"]
    ELSE build_geo(c, GeoIntelligenceService_init(s, c.cache))

\* _build_service(redis) of the endpoints
_build_service(s, redis) == build_cache(s, GeoCacheService_init(s, redis))

_is_available(g) == TruthyStr(g.api_key)

(***************************************************************************)
(* The mapping provider.  prov = [places, traffic] is how the provider      *)
(* behaves during one request: "OK", a non-success status, a transport      *)
(* error or timeout ("TIMEOUT"), or a success answer with a broken record   *)
(* ("MALFORMED").                                                           *)
(***************************************************************************)
RawPlace(id, nm, ty, rt, n) ==
    [place_id |-> Some(id), name |-> nm, lat |-> 367500, lng |-> 30400, types |-> ty,
     rating |-> rt, user_ratings_total |-> n, price_level |-> None,
     vicinity |-> Some("Alger Centre"), business_status |-> Some("OPERATIONAL")]

CafeRecord == RawPlace("p1", "Cafe Tantonville", {"cafe", "food"}, Some(42), Some(120))

BankRecord == RawPlace("p2", "BNA Agence", {"bank", "finance"}, None, None)

\* the records the provider holds around the query point, by type filter
ProviderResults(type_param) ==
    IF IsNone(type_param) THEN <<CafeRecord, BankRecord>>
    ELSE IF Val(type_param) \in {"cafe", "restaurant"} THEN <<CafeRecord>>
    ELSE <<>>

\* GET PLACES_NEARBY_URL + resp.json()
places_api(prov, type_param) ==
    CASE prov.places = "TIMEOUT" -> [exc |-> TRUE]
      [] prov.places = "REQUEST_DENIED" ->
            [exc |-> FALSE, status |-> "REQUEST_DENIED", results |-> <<>>]
      [] prov.places = "ZERO_RESULTS" ->
            [exc |-> FALSE, status |-> "ZERO_RESULTS", results |-> <<>>]
      [] prov.places = "MALFORMED" ->
            [exc |-> FALSE, status |-> "OK",
             results |-> <<[CafeRecord EXCEPT !.place_id = None]>>]
      [] OTHER ->
            LET rs == ProviderResults(type_param)
            IN  [exc |-> FALSE, status |-> IF Len(rs) = 0 THEN "ZERO_RESULTS" ELSE "OK",
                 results |-> rs]

\* the leg the provider reports for the 2 km trip north of the point
ProviderLeg == [typical |-> 600, live |-> Some(900)]

\* GET DIRECTIONS_URL + resp.json()
directions_api(prov) ==
    CASE prov.traffic = "TIMEOUT" -> [exc |-> TRUE]
      [] prov.traffic = "NOT_FOUND" -> [exc |-> FALSE, status |-> "NOT_FOUND", legs |-> <<>>]
      [] prov.traffic = "MALFORMED" -> [exc |-> FALSE, status |-> "OK", legs |-> <<>>]
      [] OTHER -> [exc |-> FALSE, status |-> "OK", legs |-> <<ProviderLeg>>]

(***************************************************************************)
(* GeoIntelligenceService.get_nearby_places                                *)
(***************************************************************************)
PlaceRequired == {"place_id", "name", "lat", "lon"}

\* PlacePopularity(place_id=r["place_id"], ...): KeyError without place_id
PlaceFromRecord(r) ==
    IF IsNone(r.place_id) THEN [exc |-> TRUE]
    ELSE [exc |-> FALSE,
          place |-> [place_id |-> Val(r.place_id), name |-> r.name, lat |-> r.lat,
                     lon |-> r.lng, types |-> r.types, rating |-> r.rating,
                     user_ratings_total |-> r.user_ratings_total,
                     price_level |-> r.price_level, vicinity |-> r.vicinity,
                     business_status |-> r.business_status]]

\* [PlacePopularity(**p) for p in cached]
PlacesFromCache(cached) ==
    IF cached.t = "list" /\ \A i \in 1..Len(cached.v) : PlaceRequired \subseteq DOMAIN cached.v[i]
    THEN [exc |-> FALSE, places |-> cached.v]
    ELSE [exc |-> TRUE]

places_extra(radius, place_type) ==
    ToString(radius) \o ":" \o (IF TruthyStr(place_type) THEN Val(place_type) ELSE "all")

\* The result of a service method is [raised, result, st, calls, wrote]:
\* calls are the provider APIs requested, wrote the cache keys written.
Done(result, st, calls, wrote) ==
    [raised |-> FALSE, result |-> result, st |-> st, calls |-> calls, wrote |-> wrote]

Failed(st, calls, wrote) ==
    [raised |-> TRUE, result |-> None, st |-> st, calls |-> calls, wrote |-> wrote]

\* await self.cache.set("places", ...); return places
nearby_cache(places, w) == [exc |-> FALSE, places |-> places, st |-> w.st, wrote |-> w.wrote]

\* places = [PlacePopularity(...) for r in results]: any KeyError aborts the try
nearby_map(g, mode, st, lat, lon, extra, made) ==
    IF \E i \in 1..Len(made) : made[i].exc THEN [exc |-> TRUE]
    ELSE nearby_cache([i \in 1..Len(made) |-> made[i].place],
                      cache_set(g.cache, mode, st, "places", lat, lon,
                                PyList([i \in 1..Len(made) |-> made[i].place]), extra, None))

\* nearby_status without the status check: whatever the status, the results it
\* carries are mapped and cached
nearby_status_unchecked(g, mode, st, lat, lon, extra, data) ==
    IF data.exc THEN [exc |-> TRUE]
    ELSE nearby_map(g, mode, st, lat, lon, extra,
                    [i \in 1..Len(data.results) |-> PlaceFromRecord(data.results[i])])

\* the status check on the provider's answer
nearby_status(g, mode, st, lat, lon, extra, data) ==
    IF data.exc THEN [exc |-> TRUE]
    ELSE IF data.status \notin {"OK", "ZERO_RESULTS"}
         THEN [exc |-> FALSE, places |-> <<>>, st |-> st, wrote |-> {}]
    ELSE nearby_map(g, mode, st, lat, lon, extra,
                    [i \in 1..Len(data.results) |-> PlaceFromRecord(data.results[i])])

\* the try block of get_nearby_places: [exc] or [exc, places, st, wrote]
nearby_try(g, mode, st, prov, lat, lon, radius, place_type) ==
    nearby_status(g, mode, st, lat, lon, places_extra(radius, place_type),
                  places_api(prov, IF TruthyStr(place_type) THEN place_type ELSE None))

\* except Exception: return []
nearby_except(st, r) ==
    IF r.exc THEN Done(<<>>, st, {"places"}, {})
    ELSE Done(r.places, r.st, {"places"}, r.wrote)

\* return [PlacePopularity(**p) for p in cached]
nearby_hit(st, p) == IF p.exc THEN Failed(st, {}, {}) ELSE Done(p.places, st, {}, {})

\* if cached: ... else the provider request
nearby_lookup(g, mode, st, prov, lat, lon, radius, place_type, cached) ==
    IF Truthy(cached) THEN nearby_hit(st, PlacesFromCache(cached))
    ELSE nearby_except(st, nearby_try(g, mode, st, prov, lat, lon, radius, place_type))

get_nearby_places(g, mode, st, prov, lat, lon, radius, place_type) ==
    IF ~_is_available(g) THEN Done(<<>>, st, {}, {})
    ELSE nearby_lookup(g, mode, st, prov, lat, lon, radius, place_type,
                       cache_get(g.cache, mode, st, "places", lat, lon,
                                 places_extra(radius, place_type)).value)

(***************************************************************************)
(* GeoIntelligenceService.get_traffic_density                              *)
(***************************************************************************)
\* congestion_level with int() in the place of round()
congestion_level_truncated(typical_secs, live_secs) ==
    Min2(10, Max2(1, FloorDiv(33 * live_secs, 10 * Max2(typical_secs, 1))))

\* congestion = min(10, max(1, round(ratio * 3.3))), ratio = live / max(typical, 1)
congestion_level(typical_secs, live_secs) ==
    Min2(10, Max2(1, PyRound(33 * live_secs, 10 * Max2(typical_secs, 1))))

\* the descriptions table: the first band that contains the level
traffic_description(congestion) ==
    CASE 1 <= congestion /\ congestion <= 3 -> "Light traffic"
      [] 4 <= congestion /\ congestion <= 5 -> "Moderate traffic"
      [] 6 <= congestion /\ congestion <= 7 -> "Heavy traffic"
      [] 8 <= congestion /\ congestion <= 10 -> "Severe congestion"

\* TrafficDensity(...): minutes in tenths, the ratio in hundredths
TrafficRecord(typical_secs, live_secs, congestion) ==
    [congestion_level         |-> congestion,
     typical_duration_minutes |-> Some(PyRound(typical_secs * 10, 60)),
     live_duration_minutes    |-> Some(PyRound(live_secs * 10, 60)),
     traffic_ratio            |-> Some(PyRound(live_secs * 100, Max2(typical_secs, 1))),
     description              |-> traffic_description(congestion)]

\* live_secs = leg.get("duration_in_traffic", {}).get("value", typical_secs)
LiveSecs(leg) == IF IsNone(leg.live) THEN leg.typical ELSE Val(leg.live)

\* lines 163-190: the TrafficDensity of the leg the provider reports
TrafficFromLeg(leg) ==
    TrafficRecord(leg.typical, LiveSecs(leg), congestion_level(leg.typical, LiveSecs(leg)))

\* TrafficDensity(**cached): congestion_level is required, in 1..10
TrafficFromCache(cached) ==
    IF cached.t = "dict" /\ "congestion_level" \in DOMAIN cached.v
       /\ cached.v.congestion_level \in 1..10
    THEN [exc |-> FALSE, traffic |-> cached.v]
    ELSE [exc |-> TRUE]

\* await self.cache.set("traffic", ...); return traffic
traffic_cache(traffic, w) ==
    [exc |-> FALSE, traffic |-> Some(traffic), st |-> w.st, wrote |-> w.wrote]

\* traffic = TrafficDensity(...)
traffic_sample(g, mode, st, lat, lon, traffic) ==
    traffic_cache(traffic,
                  cache_set(g.cache, mode, st, "traffic", lat, lon, PyDict(traffic), "", None))

\* traffic_status answering a non-success status with a zeroed sample
traffic_status_zeroed(g, mode, st, lat, lon, data) ==
    IF data.exc THEN [exc |-> TRUE]
    ELSE IF data.status # "OK"
         THEN traffic_sample(g, mode, st, lat, lon,
                             TrafficFromLeg([typical |-> 0, live |-> None]))
    ELSE IF Len(data.legs) = 0 THEN [exc |-> TRUE]
    ELSE traffic_sample(g, mode, st, lat, lon, TrafficFromLeg(data.legs[1]))

\* the status check; data["routes"][0]["legs"][0] raises without a leg
traffic_status(g, mode, st, lat, lon, data) ==
    IF data.exc THEN [exc |-> TRUE]
    ELSE IF data.status # "OK"
         THEN [exc |-> FALSE, traffic |-> None, st |-> st, wrote |-> {}]
    ELSE IF Len(data.legs) = 0 THEN [exc |-> TRUE]
    ELSE traffic_sample(g, mode, st, lat, lon, TrafficFromLeg(data.legs[1]))

\* the try block of get_traffic_density
traffic_try(g, mode, st, prov, lat, lon) ==
    traffic_status(g, mode, st, lat, lon, directions_api(prov))

\* except Exception: return None
traffic_except(st, r) ==
    IF r.exc THEN Done(None, st, {"directions"}, {})
    ELSE Done(r.traffic, r.st, {"directions"}, r.wrote)

\* return TrafficDensity(**cached)
traffic_hit(st, t) == IF t.exc THEN Failed(st, {}, {}) ELSE Done(Some(t.traffic), st, {}, {})

traffic_lookup(g, mode, st, prov, lat, lon, cached) ==
    IF Truthy(cached) THEN traffic_hit(st, TrafficFromCache(cached))
    ELSE traffic_except(st, traffic_try(g, mode, st, prov, lat, lon))

get_traffic_density(g, mode, st, prov, lat, lon) ==
    IF ~_is_available(g) THEN Done(None, st, {}, {})
    ELSE traffic_lookup(g, mode, st, prov, lat, lon,
                        cache_get(g.cache, mode, st, "traffic", lat, lon, "").value)

(***************************************************************************)
(* GeoIntelligenceService.compute_activity_score                           *)
(***************************************************************************)
\* ReviewThreshold[q + 1] is the least n with (log10(n) / 3) * 20 >= q / 10
ReviewThreshold ==
    <<
       1, 2, 2, 2, 2, 2, 2, 2, 2, 2, 2, 2, 2, 2, 2, 2, 2, 2, 2, 2,
       2, 3, 3, 3, 3, 3, 3, 3, 3, 3, 3, 3, 4, 4, 4, 4, 4, 4, 4, 4,
       4, 5, 5, 5, 5, 5, 5, 6, 6, 6, 6, 6, 7, 7, 7, 7, 7, 8, 8, 8,
       8, 9, 9, 9, 10, 10, 10, 11, 11, 11, 12, 12, 13, 13, 13, 14, 14, 15, 15, 16,
       16, 17, 17, 18, 19, 19, 20, 21, 21, 22, 23, 24, 24, 25, 26, 27, 28, 29, 30, 31,
       32, 33, 34, 36, 37, 38, 39, 41, 42, 44, 45, 47, 48, 50, 52, 54, 55, 57, 59, 61,
       64, 66, 68, 70, 73, 75, 78, 81, 84, 87, 90, 93, 96, 99, 103, 106, 110, 114, 118, 122,
       126, 131, 135, 140, 145, 150, 155, 161, 166, 172, 178, 185, 191, 198, 205, 212, 219, 227, 235, 243,
       252, 261, 270, 279, 289, 299, 310, 320, 332, 343, 355, 368, 381, 394, 408, 422, 437, 452, 468, 485,
       502, 519, 538, 556, 576, 596, 617, 639, 661, 684, 708, 733, 759, 786, 813, 842, 871, 902, 934, 967,
       1000
    >>

\* min(20, (math.log10(max(total_reviews, 1)) / 3) * 20) in tenths, rounded down
review_score(total_reviews) ==
    LET n == Max2(total_reviews, 1)
    IN  IF n >= 1000 THEN 200
        ELSE CHOOSE q \in 0..199 : ReviewThreshold[q + 1] <= n /\ n < ReviewThreshold[q + 2]

\* whether the review term is a whole number of tenths (0 or the cap)
review_exact(total_reviews) == total_reviews <= 1 \/ total_reviews >= 1000

RECURSIVE SumRatings(_)
\* sum(p.rating for p in rated), in tenths
SumRatings(places) ==
    IF Len(places) = 0 THEN 0
    ELSE (IF IsNone(Head(places).rating) THEN 0 ELSE Val(Head(places).rating))
         + SumRatings(Tail(places))

RECURSIVE SumReviews(_)
\* sum(p.user_ratings_total or 0 for p in places)
SumReviews(places) ==
    IF Len(places) = 0 THEN 0
    ELSE (IF IsNone(Head(places).user_ratings_total) THEN 0
          ELSE Val(Head(places).user_ratings_total))
         + SumReviews(Tail(places))

\* len(rated): the places that carry a rating
RatedCount(places) == Cardinality({i \in 1..Len(places) : ~IsNone(places[i].rating)})

\* len(all_types)
TypeDiversity(places) == Cardinality(UNION {places[i].types : i \in 1..Len(places)})

\* density_score that peaks at 20 places and falls beyond them
density_score_peaked(place_count) == Max2(0, 300 - 15 * Abs(place_count - 20))

\* density_score = min(30, (place_count / 20) * 30), in tenths
density_score(place_count) == Min2(300, 15 * place_count)

\* rating_score = (avg_rating / 5.0) * 20 if avg_rating else 0, in tenths, with
\* avg_rating = rating_sum / rated (the place lists of the model keep it a
\* whole number of tenths of a point)
rating_score(rating_sum, rated) ==
    IF rated = 0 \/ rating_sum = 0 THEN 0 ELSE FloorDiv(4 * rating_sum, rated)

\* diversity_score = min(15, type_diversity), in tenths
diversity_score(type_diversity) == 10 * Min2(15, type_diversity)

\* traffic_score = ((congestion or 3) / 10) * 15, in tenths
traffic_score(congestion) == 15 * (IF TruthyInt(congestion) THEN Val(congestion) ELSE 3)

\* round(total), total in tenths.  The review term is irrational unless
\* review_exact, so the total then lies strictly between two tenths.
round_total(tenths, exact) ==
    IF exact THEN PyRound(tenths, 10) ELSE FloorDiv(tenths + 5, 10)

\* score = min(100, max(0, round(total)))
activity_points(place_count, rating_sum, rated, total_reviews, type_diversity, congestion) ==
    Min2(100, Max2(0,
        round_total(density_score(place_count) + rating_score(rating_sum, rated)
                    + review_score(total_reviews) + diversity_score(type_diversity)
                    + traffic_score(congestion),
                    review_exact(total_reviews))))

\* activity_label with exclusive lower bounds
activity_label_exclusive(score) ==
    IF score > 80 THEN "Very High"
    ELSE IF score > 55 THEN "High"
    ELSE IF score > 30 THEN "Moderate"
    ELSE "Low"

activity_label(score) ==
    IF score >= 80 THEN "Very High"
    ELSE IF score >= 55 THEN "High"
    ELSE IF score >= 30 THEN "Moderate"
    ELSE "Low"

\* AreaActivityScore(score=score, ...)
ActivityRecord(place_count, rating_sum, rated, total_reviews, type_diversity, congestion, score) ==
    [score              |-> score,
     place_count        |-> place_count,
     avg_rating         |-> IF rated = 0 \/ rating_sum = 0 THEN None
                            ELSE Some(PyRound(10 * rating_sum, rated)),
     total_reviews      |-> total_reviews,
     type_diversity     |-> type_diversity,
     traffic_congestion |-> congestion,
     label              |-> activity_label(score)]

\* the score and its record from the aggregates of lines 224-239
ActivityFromAggregates(place_count, rating_sum, rated, total_reviews, type_diversity, congestion) ==
    ActivityRecord(place_count, rating_sum, rated, total_reviews, type_diversity, congestion,
                   activity_points(place_count, rating_sum, rated, total_reviews,
                                   type_diversity, congestion))

\* congestion = traffic.congestion_level if traffic else None
CongestionOf(traffic) == IF IsNone(traffic) THEN None ELSE Some(Val(traffic).congestion_level)

\* lines 224-278: the AreaActivityScore of a place list and a traffic sample
ActivityFromData(places, traffic) ==
    ActivityFromAggregates(Len(places), SumRatings(places), RatedCount(places),
                           SumReviews(places), TypeDiversity(places), CongestionOf(traffic))

\* AreaActivityScore(**cached): score is required, in 0..100
ActivityFromCache(cached) ==
    IF cached.t = "dict" /\ "score" \in DOMAIN cached.v /\ cached.v.score \in 0..100
    THEN [exc |-> FALSE, activity |-> cached.v]
    ELSE [exc |-> TRUE]

\* await self.cache.set("score", ...); return result
score_return(result, calls, wrote, w) == Done(result, w.st, calls, wrote \cup w.wrote)

\* result = AreaActivityScore(...)
score_result(g, mode, st, lat, lon, radius, calls, wrote, result) ==
    score_return(result, calls, wrote,
                 cache_set(g.cache, mode, st, "score", lat, lon, PyDict(result),
                           ToString(radius), None))

\* traffic = await self.get_traffic_density(lat, lon)
score_traffic(g, mode, lat, lon, radius, p, t) ==
    IF t.raised THEN Failed(t.st, p.calls \cup t.calls, p.wrote \cup t.wrote)
    ELSE score_result(g, mode, t.st, lat, lon, radius, p.calls \cup t.calls,
                      p.wrote \cup t.wrote, ActivityFromData(p.result, t.result))

\* places = await self.get_nearby_places(lat, lon, radius)
score_places(g, mode, prov, lat, lon, radius, p) ==
    IF p.raised THEN Failed(p.st, p.calls, p.wrote)
    ELSE score_traffic(g, mode, lat, lon, radius, p,
                       get_traffic_density(g, mode, p.st, prov, lat, lon))

\* return AreaActivityScore(**cached)
score_hit(st, a) == IF a.exc THEN Failed(st, {}, {}) ELSE Done(a.activity, st, {}, {})

score_lookup(g, mode, st, prov, lat, lon, radius, cached) ==
    IF Truthy(cached) THEN score_hit(st, ActivityFromCache(cached))
    ELSE score_places(g, mode, prov, lat, lon, radius,
                      get_nearby_places(g, mode, st, prov, lat, lon, radius, None))

compute_activity_score(g, mode, st, prov, lat, lon, radius) ==
    score_lookup(g, mode, st, prov, lat, lon, radius,
                 cache_get(g.cache, mode, st, "score", lat, lon, ToString(radius)).value)

(***************************************************************************)
(* GeoIntelligenceService.get_area_intelligence                            *)
(***************************************************************************)
\* LocationQuery(lat=, lon=, radius=): the Field bounds of schemas/geo.py
LocationQuery(lat, lon, radius) ==
    IF /\ -900000 <= lat /\ lat <= 900000
       /\ -1800000 <= lon /\ lon <= 1800000
       /\ 100 <= radius /\ radius <= 50000
    THEN [exc |-> FALSE,
          location |-> [lat |-> lat, lon |-> lon, radius |-> radius, place_type |-> None]]
    ELSE [exc |-> TRUE]

\* response.model_dump() with nothing excluded
DumpWithCached(response) == response

\* response.model_dump(exclude={"cached"})
DumpWithoutCached(response) == [f \in DOMAIN response \ {"cached"} |-> response[f]]

\* GeoIntelligenceResponse(**cached, cached=True): TypeError when the stored
\* dict has its own "cached" key, ValidationError without the required fields
ResponseFromCache(cached) ==
    IF cached.t = "dict" /\ "cached" \notin DOMAIN cached.v
       /\ {"location", "activity_score"} \subseteq DOMAIN cached.v
    THEN [exc |-> FALSE,
          response |-> [f \in DOMAIN cached.v \cup {"cached"} |->
                           IF f = "cached" THEN TRUE ELSE cached.v[f]]]
    ELSE [exc |-> TRUE]

intelligence_extra(radius, place_type) ==
    "full:" \o ToString(radius) \o ":" \o (IF TruthyStr(place_type) THEN Val(place_type) ELSE "all")

\* await self.cache.set("intelligence", ...); return response
intelligence_return(response, calls, wrote, w) == Done(response, w.st, calls, wrote \cup w.wrote)

\* response = GeoIntelligenceResponse(..., cached=False)
intelligence_response(g, mode, st, lat, lon, extra, calls, wrote, response) ==
    intelligence_return(response, calls, wrote,
                        cache_set(g.cache, mode, st, "intelligence", lat, lon,
                                  PyDict(DumpWithoutCached(response)), extra, None))

\* location = LocationQuery(lat=lat, lon=lon, radius=radius)
intelligence_location(g, mode, lat, lon, extra, calls, wrote, p, t, a, q) ==
    IF q.exc THEN Failed(a.st, calls, wrote)
    ELSE intelligence_response(g, mode, a.st, lat, lon, extra, calls, wrote,
                               [location |-> q.location, activity_score |-> a.result,
                                traffic |-> t.result, nearby_places |-> p.result,
                                cached |-> FALSE])

\* activity = await self.compute_activity_score(lat, lon, radius)
intelligence_score(g, mode, lat, lon, radius, extra, calls, wrote, p, t, a) ==
    IF a.raised THEN Failed(a.st, calls \cup a.calls, wrote \cup a.wrote)
    ELSE intelligence_location(g, mode, lat, lon, extra, calls \cup a.calls,
                               wrote \cup a.wrote, p, t, a, LocationQuery(lat, lon, radius))

\* traffic = await self.get_traffic_density(lat, lon)
intelligence_traffic(g, mode, prov, lat, lon, radius, extra, p, t) ==
    IF t.raised THEN Failed(t.st, p.calls \cup t.calls, p.wrote \cup t.wrote)
    ELSE intelligence_score(g, mode, lat, lon, radius, extra, p.calls \cup t.calls,
                            p.wrote \cup t.wrote, p, t,
                            compute_activity_score(g, mode, t.st, prov, lat, lon, radius))

\* places = await self.get_nearby_places(lat, lon, radius, place_type)
intelligence_places(g, mode, prov, lat, lon, radius, extra, p) ==
    IF p.raised THEN Failed(p.st, p.calls, p.wrote)
    ELSE intelligence_traffic(g, mode, prov, lat, lon, radius, extra, p,
                              get_traffic_density(g, mode, p.st, prov, lat, lon))

\* return GeoIntelligenceResponse(**cached, cached=True)
intelligence_hit(st, c) == IF c.exc THEN Failed(st, {}, {}) ELSE Done(c.response, st, {}, {})

intelligence_lookup(g, mode, st, prov, lat, lon, radius, place_type, cached) ==
    IF Truthy(cached) THEN intelligence_hit(st, ResponseFromCache(cached))
    ELSE intelligence_places(g, mode, prov, lat, lon, radius,
                             intelligence_extra(radius, place_type),
                             get_nearby_places(g, mode, st, prov, lat, lon, radius, place_type))

get_area_intelligence(g, mode, st, prov, lat, lon, radius, place_type) ==
    intelligence_lookup(g, mode, st, prov, lat, lon, radius, place_type,
                        cache_get(g.cache, mode, st, "intelligence", lat, lon,
                                  intelligence_extra(radius, place_type)).value)

(***************************************************************************)
(* The market demand service (app/services/demand_intelligence_service.py).*)
(*  - a signal score and a weighted score are integer numbers of tenths of *)
(*    a point, a weight an integer number of hundredths (0.25 is 25), a    *)
(*    growth trend an integer number of hundredths (1.05 is 105), an urban *)
(*    or rural factor an integer number of tenths (1.3 is 13);             *)
(*  - round(x, 1) rounds the double x: where the decimal value of x lies   *)
(*    exactly half-way between two tenths, the side the double lies on     *)
(*    decides.  The ...Lean operators give that side for the expressions   *)
(*    built from the profile table: 1 above, -1 below, 0 exact.            *)
(***************************************************************************)
\* SECTOR_PROFILES, in the order of the dict
SectorOrder ==
    <<"agriculture", "manufacturing", "services", "technology", "tourism", "energy",
      "construction", "commerce", "health", "education", "transport", "housing">>

Profile(name, base, urban, rural, growth) ==
    [name |-> name, base_demand |-> base, urban_factor |-> urban, rural_factor |-> rural,
     growth_trend |-> growth]

SECTOR_PROFILES ==
    [s \in {SectorOrder[i] : i \in DOMAIN SectorOrder} |->
        CASE s = "agriculture"   -> Profile("Agriculture", 72, 7, 13, 105)
          [] s = "manufacturing" -> Profile("Manufacturing", 65, 11, 8, 108)
          [] s = "services"      -> Profile("Services", 78, 13, 6, 112)
          [] s = "technology"    -> Profile("Technology", 82, 14, 4, 118)
          [] s = "tourism"       -> Profile("Tourism", 60, 10, 10, 110)
          [] s = "energy"        -> Profile("Energy", 70, 9, 11, 115)
          [] s = "construction"  -> Profile("Construction", 74, 12, 9, 106)
          [] s = "commerce"      -> Profile("Commerce / Retail", 76, 13, 7, 109)
          [] s = "health"        -> Profile("Health", 80, 11, 9, 107)
          [] s = "education"     -> Profile("Education", 68, 10, 10, 104)
          [] s = "transport"     -> Profile("Transport & Logistics", 71, 12, 8, 111)
          [] s = "housing"       -> Profile("Housing / Real Estate", 73, 13, 7, 106)]

\* SECTOR_PROFILES.get(sector, {}).get(field, default)
profile_get(sector, field, default) ==
    IF sector \in DOMAIN SECTOR_PROFILES THEN SECTOR_PROFILES[sector][field] ELSE default

\* WILAYAS.get(wilaya_code, wilaya_code) if wilaya_code else None
WILAYAS == [c \in {"01", "14"} |-> IF c = "01" THEN "Algiers" ELSE "Ouargla"]

wilaya_name(wilaya_code) ==
    IF ~TruthyStr(wilaya_code) THEN None
    ELSE IF Val(wilaya_code) \in DOMAIN WILAYAS THEN Some(WILAYAS[Val(wilaya_code)])
    ELSE wilaya_code

\* round() of the double whose decimal value is num/den and which lies on the
\* side lean of it
RoundLean(num, den, lean) ==
    IF 2 * (num - FloorDiv(num, den) * den) = den /\ lean # 0
    THEN FloorDiv(num, den) + (IF lean > 0 THEN 1 ELSE 0)
    ELSE PyRound(num, den)

\* the side of min(100, (growth - 1) * 500 + 40) as a double
PricingLean(growth) == IF growth \in {100, 112, 115, 118} THEN 0 ELSE 1

\* the side of (30 + (growth - 1.0) * 300) * 0.15 as a double
EconomicLean(growth) ==
    IF growth = 100 THEN 0 ELSE IF growth \in {115, 118} THEN -1 ELSE 1

\* the side of base * 0.85 as a double
FallbackLean(base) ==
    IF base \in {60, 65, 70, 80} THEN 0 ELSE IF base \in {71, 82} THEN 1 ELSE -1

\* the side of base * 0.85 * 0.20 as a double
FallbackWeightedLean(base) == IF base \in {76, 78} THEN -1 ELSE 1

\* DemandSignal(name=, score=, weight=, weighted_score=, detail=)
DemandSignal(name, score, weight, weighted_score, detail) ==
    [name |-> name, score |-> score, weight |-> weight, weighted_score |-> weighted_score,
     detail |-> detail]

\* min(100, max(0, score)), in tenths
clamp_score(tenths) == Min2(1000, Max2(0, tenths))

(***************************************************************************)
(* The database session.  db = [sectors, points, macro, wilayas, down]:    *)
(* the slugs of the Sector table, the TimeSeriesData rows per sector slug, *)
(* how many of the rows carry an "economic" source, the Wilaya table by    *)
(* code, and the tables whose queries raise.                               *)
(***************************************************************************)
\* select(Sector.id).where(Sector.slug == sector): scalar_one_or_none()
select_sector_id(d, sector) ==
    IF "sector" \in d.down THEN [exc |-> TRUE]
    ELSE [exc |-> FALSE, value |-> IF sector \in d.sectors THEN Some(sector) ELSE None]

RECURSIVE SumPoints(_, _)
SumPoints(points, slugs) ==
    IF slugs = {} THEN 0
    ELSE LET s == CHOOSE x \in slugs : TRUE
         IN  points[s] + SumPoints(points, slugs \ {s})

\* select(func.avg(...), func.count(TimeSeriesData.id)), filtered by sector_id
\* if it resolved: row.count
select_count(d, sector_id) ==
    IF "time_series_data" \in d.down THEN [exc |-> TRUE]
    ELSE [exc |-> FALSE,
          value |-> IF ~IsNone(sector_id) THEN d.points[Val(sector_id)]
                    ELSE SumPoints(d.points, DOMAIN d.points)]

\* select(func.count(TimeSeriesData.id)).where(source.ilike("%economic%"))
select_macro_count(d) ==
    IF "time_series_data" \in d.down THEN [exc |-> TRUE]
    ELSE [exc |-> FALSE, value |-> d.macro]

\* select(Wilaya).where(Wilaya.code == wilaya_code): scalar_one_or_none()
select_wilaya(d, wilaya_code) ==
    IF "wilaya" \in d.down THEN [exc |-> TRUE]
    ELSE [exc |-> FALSE,
          value |-> IF Val(wilaya_code) \in DOMAIN d.wilayas
                    THEN Some(d.wilayas[Val(wilaya_code)]) ELSE None]

\* w and w.latitude and w.longitude
has_coordinates(w) ==
    ~IsNone(w) /\ TruthyInt(Val(w).latitude) /\ TruthyInt(Val(w).longitude)

(***************************************************************************)
(* DemandIntelligenceService: the five signals                             *)
(***************************************************************************)
\* the DemandSignal of lines 162-169 from the unrounded score, in tenths
pricing_result(tenths, lean, detail) ==
    DemandSignal("Pricing Trends", clamp_score(tenths), 25,
                 RoundLean(clamp_score(tenths), 4, lean), detail)

\* if data_points > 0: ... else the sector profile
pricing_score(sector, data_points) ==
    IF data_points > 0
    THEN pricing_result(500 + 6 * Min2(50, data_points), 0, "data points analyzed")
    ELSE pricing_result(Min2(1000, (profile_get(sector, "growth_trend", 100) - 100) * 50 + 400),
                        PricingLean(profile_get(sector, "growth_trend", 100)),
                        "Based on sector growth profile")

\* except Exception: the constant signal
pricing_except ==
    DemandSignal("Pricing Trends", 500, 25, 125, "Insufficient data")

pricing_count(sector, counted) ==
    IF counted.exc THEN pricing_except ELSE pricing_score(sector, counted.value)

pricing_query(d, sector, sector_id) ==
    IF sector_id.exc THEN pricing_except
    ELSE pricing_count(sector, select_count(d, sector_id.value))

_pricing_signal(d, sector) == pricing_query(d, sector, select_sector_id(d, sector))

\* the DemandSignal of lines 317-322 from the score in points
economic_result(score, lean, detail) ==
    DemandSignal("Economic Indicators", clamp_score(10 * score), 15,
                 RoundLean(15 * clamp_score(10 * score), 100, lean), detail)

\* a variant that takes a readable macro count of zero for macro data
economic_score_flat(sector, macro_count) ==
    IF macro_count.exc THEN economic_result(50, 0, "sector growth trend")
    ELSE economic_result(65, 0, "macro data")

economic_score(sector, macro_count) ==
    IF macro_count.exc THEN economic_result(50, 0, "sector growth trend")
    ELSE IF macro_count.value > 0 THEN economic_result(65, 0, "macro data")
    ELSE economic_result(30 + (profile_get(sector, "growth_trend", 100) - 100) * 3,
                         EconomicLean(profile_get(sector, "growth_trend", 100)),
                         "sector growth trend")

_economic_signal(d, sector) == economic_score(sector, select_macro_count(d))

\* the outcome of a signal that uses the geo service: the signal, the cache
\* after it, the provider APIs requested and the cache keys written
Sig(signal, st, calls, wrote) ==
    [signal |-> signal, st |-> st, calls |-> calls, wrote |-> wrote]

\* self.geo_service: the service object the endpoint built
has_geo(g) == g.built = "yes"

\* type_map.get(sector)
type_map_get(sector) ==
    CASE sector \in {"commerce", "manufacturing"} -> Some("store")
      [] sector = "services"  -> Some("restaurant")
      [] sector = "health"    -> Some("hospital")
      [] sector = "education" -> Some("school")
      [] sector = "tourism"   -> Some("hotel")
      [] OTHER -> None

\* the sweet-spot curve of lines 201-208, in points
competition_score(count) ==
    IF count = 0 THEN 30
    ELSE IF count <= 5 THEN 50 + count * 6
    ELSE IF count <= 15 THEN 80
    ELSE Max2(40, 90 - (count - 15) * 3)

competition_geo(count) ==
    DemandSignal("Competition Density", 10 * competition_score(count), 20,
                 2 * competition_score(count), "competitors in 2km radius")

\* Fallback: use sector profile
competition_fallback(sector) ==
    DemandSignal("Competition Density",
                 RoundLean(85 * profile_get(sector, "base_demand", 60), 10,
                           FallbackLean(profile_get(sector, "base_demand", 60))),
                 20,
                 RoundLean(17 * profile_get(sector, "base_demand", 60), 10,
                           FallbackWeightedLean(profile_get(sector, "base_demand", 60))),
                 "Based on sector averages (no geo data)")

\* count = len(places), or the except branch when get_nearby_places raised
competition_places(sector, r) ==
    IF r.raised THEN Sig(competition_fallback(sector), r.st, r.calls, r.wrote)
    ELSE Sig(competition_geo(Len(r.result)), r.st, r.calls, r.wrote)

competition_wilaya(g, mode, st, prov, sector, w) ==
    IF w.exc \/ ~has_coordinates(w.value) THEN Sig(competition_fallback(sector), st, {}, {})
    ELSE competition_places(sector,
             get_nearby_places(g, mode, st, prov, Val(Val(w.value).latitude),
                               Val(Val(w.value).longitude), 2000, type_map_get(sector)))

_competition_signal(g, mode, st, prov, d, sector, wilaya_code) ==
    IF has_geo(g) /\ TruthyStr(wilaya_code)
    THEN competition_wilaya(g, mode, st, prov, sector, select_wilaya(d, wilaya_code))
    ELSE Sig(competition_fallback(sector), st, {}, {})

\* math.log10 of a power of ten (the populations of the model are powers of
\* ten, whose logarithm a double holds exactly)
RECURSIVE Log10(_)
Log10(n) == IF n < 10 THEN 0 ELSE 1 + Log10(n \div 10)

\* min(95, 30 + math.log10(max(w.population, 1000)) * 12), in points
pop_score(population) == Min2(95, 30 + Log10(Max2(population, 1000)) * 12)

\* w.region in ("North", "Central") if w.region else True
is_urban(region) == IF TruthyStr(region) THEN Val(region) \in {"North", "Central"} ELSE TRUE

location_factor(sector, region) ==
    IF is_urban(region) THEN profile_get(sector, "urban_factor", 10)
    ELSE profile_get(sector, "rural_factor", 10)

demographics_fallback ==
    DemandSignal("Demographics", 550, 20, 110, "National average (no wilaya specified)")

\* the DemandSignal of lines 251-256 from the unrounded score, in tenths
demographics_result(tenths) ==
    DemandSignal("Demographics", clamp_score(tenths), 20, PyRound(clamp_score(tenths), 5),
                 "Population")

\* a variant that reads w.population without testing w first
demographics_wilaya_unguarded(sector, w) ==
    IF w.exc \/ IsNone(w.value) THEN [raised |-> TRUE]
    ELSE IF TruthyInt(Val(w.value).population)
         THEN [raised |-> FALSE,
               signal |-> demographics_result(pop_score(Val(Val(w.value).population))
                                              * location_factor(sector, Val(w.value).region))]
    ELSE [raised |-> FALSE, signal |-> demographics_fallback]

demographics_wilaya(sector, w) ==
    IF w.exc THEN [raised |-> TRUE]
    ELSE IF ~IsNone(w.value) /\ TruthyInt(Val(w.value).population)
         THEN [raised |-> FALSE,
               signal |-> demographics_result(pop_score(Val(Val(w.value).population))
                                              * location_factor(sector, Val(w.value).region))]
    ELSE [raised |-> FALSE, signal |-> demographics_fallback]

\* no try block: a failing query raises out of the method
_demographics_signal(d, sector, wilaya_code) ==
    IF TruthyStr(wilaya_code) THEN demographics_wilaya(sector, select_wilaya(d, wilaya_code))
    ELSE [raised |-> FALSE, signal |-> demographics_fallback]

activity_fallback ==
    DemandSignal("Area Activity", 500, 20, 100, "No geo data available")

\* score=float(activity.score), weighted_score=round(activity.score * 0.20, 1)
activity_geo(activity) ==
    DemandSignal("Area Activity", 10 * activity.score, 20, 2 * activity.score, "Activity")

activity_scored(r) ==
    IF r.raised THEN Sig(activity_fallback, r.st, r.calls, r.wrote)
    ELSE Sig(activity_geo(r.result), r.st, r.calls, r.wrote)

activity_wilaya(g, mode, st, prov, w) ==
    IF w.exc \/ ~has_coordinates(w.value) THEN Sig(activity_fallback, st, {}, {})
    ELSE activity_scored(compute_activity_score(g, mode, st, prov, Val(Val(w.value).latitude),
                                                Val(Val(w.value).longitude), 2000))

_activity_signal(g, mode, st, prov, d, wilaya_code) ==
    IF has_geo(g) /\ TruthyStr(wilaya_code)
    THEN activity_wilaya(g, mode, st, prov, select_wilaya(d, wilaya_code))
    ELSE Sig(activity_fallback, st, {}, {})

(***************************************************************************)
(* compute_demand_score                                                    *)
(***************************************************************************)
\* sum(s.weighted_score for s in signals), in tenths
RECURSIVE SumWeighted(_)
SumWeighted(signals) ==
    IF Len(signals) = 0 THEN 0
    ELSE Head(signals).weighted_score + SumWeighted(Tail(signals))

\* demand_points with the total cut to its integer part instead of rounded
demand_points_truncated(signals, lean) ==
    Min2(100, Max2(0, FloorDiv(SumWeighted(signals), 10)))

\* score = min(100, max(0, round(total))).  sum() adds doubles, none of them
\* exactly a tenth, and how it adds them depends on the interpreter (plain
\* addition before Python 3.12, compensated since): where the decimal total
\* lies half-way between two integers, the double total lies on the side lean
\* of it (0: exactly on it)
demand_points(signals, lean) ==
    Min2(100, Max2(0, RoundLean(SumWeighted(signals), 10, lean)))

demand_label(score) ==
    IF score >= 80 THEN "Very High"
    ELSE IF score >= 60 THEN "High"
    ELSE IF score >= 40 THEN "Moderate"
    ELSE "Low"

\* DemandScore(sector=, wilaya_code=, wilaya_name=, score=, label=, signals=)
DemandScore(sector, wilaya_code, signals, lean) ==
    [sector |-> sector, wilaya_code |-> wilaya_code, wilaya_name |-> wilaya_name(wilaya_code),
     score |-> demand_points(signals, lean),
     label |-> demand_label(demand_points(signals, lean)), signals |-> signals]

\* _gather_signals after the activity signal a: the list of the five
gather_economic(d, sector, c, dm, p, a) ==
    Done(<<p, c.signal, dm.signal, a.signal, _economic_signal(d, sector)>>,
         a.st, c.calls \cup a.calls, c.wrote \cup a.wrote)

\* _gather_signals after the demographics signal dm
gather_activity(g, mode, prov, d, sector, wilaya_code, p, c, dm) ==
    IF dm.raised THEN Failed(c.st, c.calls, c.wrote)
    ELSE gather_economic(d, sector, c, dm, p,
                         _activity_signal(g, mode, c.st, prov, d, wilaya_code))

\* _gather_signals after the competition signal c
gather_demographics(g, mode, prov, d, sector, wilaya_code, p, c) ==
    gather_activity(g, mode, prov, d, sector, wilaya_code, p, c,
                    _demographics_signal(d, sector, wilaya_code))

_gather_signals(g, mode, st, prov, d, sector, wilaya_code) ==
    gather_demographics(g, mode, prov, d, sector, wilaya_code, _pricing_signal(d, sector),
                        _competition_signal(g, mode, st, prov, d, sector, wilaya_code))

\* compute_demand_score from the outcome of _gather_signals
demand_scored(sector, wilaya_code, lean, gathered) ==
    IF gathered.raised THEN gathered
    ELSE Done(DemandScore(sector, wilaya_code, gathered.result, lean),
              gathered.st, gathered.calls, gathered.wrote)

compute_demand_score(g, mode, st, prov, d, sector, wilaya_code, lean) ==
    demand_scored(sector, wilaya_code, lean,
                  _gather_signals(g, mode, st, prov, d, sector, wilaya_code))

(***************************************************************************)
(* get_sector_opportunities                                                *)
(***************************************************************************)
\* list.sort(key=lambda x: -x[field]) is stable: an entry goes behind the
\* entries before it whose key is not smaller
\* an insertion that puts an entry in front of the entries with the same key
RECURSIVE InsertDescUnstable(_, _, _)
InsertDescUnstable(sorted, x, field) ==
    IF Len(sorted) = 0 THEN <<x>>
    ELSE IF Head(sorted)[field] > x[field]
         THEN <<Head(sorted)>> \o InsertDescUnstable(Tail(sorted), x, field)
    ELSE <<x>> \o sorted

RECURSIVE InsertDesc(_, _, _)
InsertDesc(sorted, x, field) ==
    IF Len(sorted) = 0 THEN <<x>>
    ELSE IF Head(sorted)[field] >= x[field]
         THEN <<Head(sorted)>> \o InsertDesc(Tail(sorted), x, field)
    ELSE <<x>> \o sorted

RECURSIVE SortDesc(_, _)
SortDesc(seq, field) ==
    IF Len(seq) = 0 THEN <<>>
    ELSE InsertDesc(SortDesc(SubSeq(seq, 1, Len(seq) - 1), field), seq[Len(seq)], field)

\* seq[:n] for n >= 0
Prefix(seq, n) == SubSeq(seq, 1, Min2(n, Len(seq)))

\* [s.detail for s in sorted(ds.signals, key=lambda x: -x.weighted_score)[:3]]
key_signals(signals) ==
    [i \in 1..Min2(3, Len(signals)) |-> SortDesc(signals, "weighted_score")[i].detail]

\* SectorOpportunity(rank=0, sector=, sector_name=, score=, label=, key_signals=)
SectorOpportunity(sector, ds) ==
    [rank |-> 0, sector |-> sector, sector_name |-> SECTOR_PROFILES[sector].name,
     score |-> ds.score, label |-> ds.label, key_signals |-> key_signals(ds.signals)]

\* for i, opp in enumerate(results): opp.rank = i + 1
assign_ranks(results) == [i \in 1..Len(results) |-> [results[i] EXCEPT !.rank = i]]

\* results.sort(...); the ranks; return results[:limit]
opportunities_ranked(results, limit) ==
    Prefix(assign_ranks(SortDesc(results, "score")), limit)

RECURSIVE opportunities_loop(_, _, _, _, _, _, _, _, _, _)
\* the loop body from the outcome of _gather_signals for the i-th profile
opportunities_append(g, mode, prov, d, wilaya_code, i, gathered, calls, wrote, r) ==
    IF r.raised THEN Failed(r.st, calls \cup r.calls, wrote \cup r.wrote)
    ELSE opportunities_loop(g, mode, r.st, prov, d, wilaya_code, i + 1,
                            Append(gathered, r.result), calls \cup r.calls,
                            wrote \cup r.wrote)

\* for sector_slug, profile in SECTOR_PROFILES.items(), from the i-th profile
\* on: the signals that compute_demand_score gathers for each profile
opportunities_loop(g, mode, st, prov, d, wilaya_code, i, gathered, calls, wrote) ==
    IF i > Len(SectorOrder) THEN Done(gathered, st, calls, wrote)
    ELSE opportunities_append(g, mode, prov, d, wilaya_code, i, gathered, calls, wrote,
                              _gather_signals(g, mode, st, prov, d, SectorOrder[i],
                                              wilaya_code))

opportunities_gathered(g, mode, st, prov, d, wilaya_code) ==
    opportunities_loop(g, mode, st, prov, d, wilaya_code, 1, <<>>, {}, {})

\* the SectorOpportunity list of the loop from the signals of each profile
opportunities_results(wilaya_code, lean, gathered) ==
    [i \in 1..Len(gathered) |->
        SectorOpportunity(SectorOrder[i],
                          DemandScore(SectorOrder[i], wilaya_code, gathered[i], lean))]

\* get_sector_opportunities from the outcome of the loop
opportunities_from(wilaya_code, limit, lean, looped) ==
    IF looped.raised THEN looped
    ELSE Done(opportunities_ranked(opportunities_results(wilaya_code, lean, looped.result),
                                   limit),
              looped.st, looped.calls, looped.wrote)

get_sector_opportunities(g, mode, st, prov, d, wilaya_code, limit, lean) ==
    opportunities_from(wilaya_code, limit, lean,
                       opportunities_gathered(g, mode, st, prov, d, wilaya_code))

(***************************************************************************)
(* get_feasibility_report                                                  *)
(***************************************************************************)
\* a verdict whose thresholds are exclusive
verdict_exclusive(demand_score, activity_score) ==
    IF demand_score > 75 /\ (IsNone(activity_score) \/ Val(activity_score) > 40)
    THEN "Highly Favorable"
    ELSE IF demand_score > 55 THEN "Feasible"
    ELSE IF demand_score > 35 THEN "Risky"
    ELSE "Not Recommended"

\* the verdict logic of lines 440-447
verdict(demand_score, activity_score) ==
    IF demand_score >= 75 /\ (IsNone(activity_score) \/ Val(activity_score) >= 40)
    THEN "Highly Favorable"
    ELSE IF demand_score >= 55 THEN "Feasible"
    ELSE IF demand_score >= 35 THEN "Risky"
    ELSE "Not Recommended"

\* rated = [p for p in places if p.rating]
RECURSIVE Rated(_)
Rated(places) ==
    IF Len(places) = 0 THEN <<>>
    ELSE (IF TruthyInt(Head(places).rating) THEN <<Head(places)>> ELSE <<>>)
         \o Rated(Tail(places))

\* round(sum(p.rating for p in rated) / len(rated), 1) if rated else None
avg_rating(places) ==
    IF Len(Rated(places)) = 0 THEN None
    ELSE Some(PyRound(SumRatings(Rated(places)), Len(Rated(places))))

\* FeasibilityReport(sector=, ..., verdict=): demand is the DemandScore
FeasibilityReport(demand, activity_score, competition_count, avg_competitor_rating) ==
    [sector |-> demand.sector, wilaya_code |-> demand.wilaya_code,
     wilaya_name |-> demand.wilaya_name, demand_score |-> demand,
     activity_score |-> activity_score, competition_count |-> competition_count,
     avg_competitor_rating |-> avg_competitor_rating,
     verdict |-> verdict(demand.score, activity_score)]

\* the report and the effects of the demand score (ds) and of the geo part (r)
feasibility_return(ds, report, r) ==
    Done(report, r.st, ds.calls \cup r.calls, ds.wrote \cup r.wrote)

\* after get_nearby_places (p): the except branch keeps the activity score
feasibility_places(ds, a, p) ==
    IF p.raised
    THEN feasibility_return(ds, FeasibilityReport(ds.result, Some(a.result.score), None, None),
                            [st |-> p.st, calls |-> a.calls \cup p.calls,
                             wrote |-> a.wrote \cup p.wrote])
    ELSE feasibility_return(ds, FeasibilityReport(ds.result, Some(a.result.score),
                                                  Some(Len(p.result)), avg_rating(p.result)),
                            [st |-> p.st, calls |-> a.calls \cup p.calls,
                             wrote |-> a.wrote \cup p.wrote])

\* after compute_activity_score (a)
feasibility_activity(g, mode, prov, ds, lat, lon, a) ==
    IF a.raised
    THEN feasibility_return(ds, FeasibilityReport(ds.result, None, None, None), a)
    ELSE feasibility_places(ds, a, get_nearby_places(g, mode, a.st, prov, lat, lon, 2000, None))

\* the try block from the Wilaya row on
feasibility_wilaya(g, mode, prov, ds, w) ==
    IF w.exc \/ ~has_coordinates(w.value)
    THEN feasibility_return(ds, FeasibilityReport(ds.result, None, None, None),
                            [st |-> ds.st, calls |-> {}, wrote |-> {}])
    ELSE feasibility_activity(g, mode, prov, ds, Val(Val(w.value).latitude),
                              Val(Val(w.value).longitude),
                              compute_activity_score(g, mode, ds.st, prov,
                                                     Val(Val(w.value).latitude),
                                                     Val(Val(w.value).longitude), 2000))

\* after compute_demand_score (ds); prov is the provider during the geo part
feasibility_demand(g, mode, prov, d, wilaya_code, ds) ==
    IF ds.raised THEN ds
    ELSE IF has_geo(g) /\ TruthyStr(wilaya_code)
         THEN feasibility_wilaya(g, mode, prov, ds, select_wilaya(d, wilaya_code))
    ELSE feasibility_return(ds, FeasibilityReport(ds.result, None, None, None),
                            [st |-> ds.st, calls |-> {}, wrote |-> {}])

\* prov and later are the provider during the demand score and after it
get_feasibility_report(g, mode, st, prov, later, d, sector, wilaya_code, lean) ==
    feasibility_demand(g, mode, later, d, wilaya_code,
                       compute_demand_score(g, mode, st, prov, d, sector, wilaya_code, lean))

(***************************************************************************)
(* Bounds and input sets                                                   *)
(***************************************************************************)
\* service requests (or cache operations) per behaviour
MaxCalls == 2

\* places in an area of the scoring specification (the density term
\* saturates at 20)
MaxPlaces == 21

\* no coroutine of the geo service is in flight
NoTasks == [r \in {} |-> None]

\* the environments: Settings as declared in config.py without and with the
\* generic key, and a Settings class extended with the three geo fields
Envs ==
    {[geo |-> FALSE, maps_key |-> None, google_key |-> None],
     [geo |-> FALSE, maps_key |-> None, google_key |-> Some("AIza-generic")],
     [geo |-> TRUE, maps_key |-> None, google_key |-> None],
     [geo |-> TRUE, maps_key |-> Some("AIza-maps"), google_key |-> None]}

\* how the provider behaves during one request
Providers ==
    {[places |-> "OK", traffic |-> "OK"],
     [places |-> "ZERO_RESULTS", traffic |-> "OK"],
     [places |-> "REQUEST_DENIED", traffic |-> "NOT_FOUND"],
     [places |-> "TIMEOUT", traffic |-> "TIMEOUT"],
     [places |-> "MALFORMED", traffic |-> "MALFORMED"],
     [places |-> "OK", traffic |-> "TIMEOUT"],
     [places |-> "TIMEOUT", traffic |-> "OK"]}

\* query points of the service requests (36.7500 N, 3.0400 E)
GeoLats == {367500}

GeoLon == 30400

Radii == {1000}

PlaceTypes == {None, Some("cafe"), Some("all")}

\* latitudes of the cache operations: -0.0004, 0.0004 and 0.0006 degrees; the
\* first two round to 0.000, the third to 0.001
CacheLats == {-4, 4, 6}

\* (namespace, latitude, qualifier) triples of the cache operations
CacheSlots ==
    {<<"places", lat, "1000:all">> : lat \in CacheLats} \cup {<<"traffic", 4, "">>}

CachePayloads == <<PyList(<<>>), PyList(<<"p1">>), PyDict([congestion_level |-> 3]), PyCircular>>

CacheTtls == {None, Some(0), Some(60)}

ForeignRaws == {[kind |-> "garbage"], [kind |-> "empty"]}

EmptyStore == [k \in {} |-> None]

\* the Wilaya table: Algiers with coordinates, Ouargla without
WilayaRow(latitude, longitude, population, region) ==
    [latitude |-> latitude, longitude |-> longitude, population |-> population,
     region |-> region]

WilayaTable ==
    [c \in {"01", "14"} |->
        IF c = "01" THEN WilayaRow(Some(367500), Some(GeoLon), Some(1000000), Some("North"))
        ELSE WilayaRow(None, None, Some(100000), Some("South"))]

\* the database before any ingestion
SeedDb == [sectors |-> {}, points |-> [s \in {} |-> 0], macro |-> 0, wilayas |-> WilayaTable,
           down |-> {}]

\* after ingestion: three sectors registered, two of them with rows, macro
\* of the rows from an economic source
IngestedDb(macro) ==
    [sectors |-> {"agriculture", "services", "commerce"},
     points |-> [s \in {"agriculture", "services", "commerce"} |->
                    IF s = "agriculture" THEN 25 ELSE IF s = "services" THEN 80 ELSE 0],
     macro |-> macro, wilayas |-> WilayaTable, down |-> {}]

\* the tables whose queries raise during a request
Outages == {{"sector"}, {"time_series_data"}, {"wilaya"}, {"sector", "time_series_data", "wilaya"}}

DbStates ==
    {SeedDb, IngestedDb(0), IngestedDb(3)}
        \cup {[IngestedDb(3) EXCEPT !.down = tables] : tables \in Outages}

\* requested sectors: with rows, with a place type, registered without rows,
\* not registered, and without a profile
DemandSectors == {"agriculture", "services", "commerce", "technology", "crafts"}

\* requested locations: none, Algiers, Ouargla, and a code without a row
WilayaCodes == {None, Some("01"), Some("14"), Some("99")}

\* the sides of a double total: below, on and above its decimal value
Leans == {-1, 0, 1}

\* the sides to tell apart for the totals of the signal lists of a request:
\* the side only matters for a total half-way between two integers
SidesOf(lists) ==
    IF \E i \in 1..Len(lists) : SumWeighted(lists[i]) % 10 = 5 THEN Leans ELSE {0}

\* limit: Query(10, ge=1, le=20)
Limits == {1, 5, 12, 20}

(***************************************************************************)
(* State machine                                                           *)
(***************************************************************************)
Init ==
    /\ settings \in {Settings(env) : env \in Envs}
    /\ svc = Unbuilt
    /\ storeMode \in {"none", "live", "failing"}
    /\ store = EmptyStore
    /\ provider \in Providers
    /\ last = [op |-> "init"]
    /\ db = SeedDb
    /\ tasks = NoTasks
    /\ ncalls = 0

\* _build_service(redis) at the first request; redis is None in mode "none"
Build ==
    /\ svc.built = "no"
    /\ svc' = _build_service(settings, storeMode # "none")
    /\ last' = [op |-> "build", raised |-> svc'.built = "raised"]
    /\ UNCHANGED <<settings, storeMode, store, provider, ncalls, db, tasks>>

CanCall == svc.built = "yes" /\ ncalls < MaxCalls

\* the request and its outcome, as the caller observes them
Record(op, lat, radius, place_type, r) ==
    [op |-> op, lat |-> lat, lon |-> GeoLon, radius |-> radius, place_type |-> place_type,
     raised |-> r.raised, result |-> r.result, calls |-> r.calls, wrote |-> r.wrote]

\* the effect of a request with outcome r
Serve(op, prov, lat, radius, place_type, r) ==
    /\ store' = r.st
    /\ last' = Record(op, lat, radius, place_type, r)
    /\ provider' = prov
    /\ ncalls' = ncalls + 1
    /\ UNCHANGED <<settings, svc, storeMode, db, tasks>>

NearbyPlaces(prov, lat, radius, place_type) ==
    /\ CanCall
    /\ Serve("get_nearby_places", prov, lat, radius, place_type,
             get_nearby_places(svc, storeMode, store, prov, lat, GeoLon, radius, place_type))

TrafficDensity(prov, lat) ==
    /\ CanCall
    /\ Serve("get_traffic_density", prov, lat, 0, None,
             get_traffic_density(svc, storeMode, store, prov, lat, GeoLon))

ActivityScore(prov, lat, radius) ==
    /\ CanCall
    /\ Serve("compute_activity_score", prov, lat, radius, None,
             compute_activity_score(svc, storeMode, store, prov, lat, GeoLon, radius))

AreaIntelligence(prov, lat, radius, place_type) ==
    /\ CanCall
    /\ Serve("get_area_intelligence", prov, lat, radius, place_type,
             get_area_intelligence(svc, storeMode, store, prov, lat, GeoLon, radius, place_type))

\* the TTL of an entry runs out (while requests are still to come)
Expire ==
    \E key \in DOMAIN store :
        /\ ncalls < MaxCalls
        /\ store' = redis_delete(store, key)
        /\ last' = [op |-> "expire"]
        /\ UNCHANGED <<settings, svc, storeMode, provider, ncalls, db, tasks>>

Request(prov) ==
    \/ \E lat \in GeoLats, radius \in Radii, place_type \in PlaceTypes :
           NearbyPlaces(prov, lat, radius, place_type)
    \/ \E lat \in GeoLats : TrafficDensity(prov, lat)
    \/ \E lat \in GeoLats, radius \in Radii : ActivityScore(prov, lat, radius)
    \/ \E lat \in GeoLats, radius \in Radii, place_type \in PlaceTypes :
           AreaIntelligence(prov, lat, radius, place_type)

Next ==
    \/ Build
    \/ \E prov \in Providers : Request(prov)
    \/ Expire

Spec == Init /\ [][Next]_vars

\* the same requests against a provider whose behaviour never changes
NextFixed ==
    \/ Build
    \/ Request(provider)
    \/ Expire

SpecFixed == Init /\ [][NextFixed]_vars

(***************************************************************************)
(* The cache on its own: get, set and invalidate with arbitrary payloads   *)
(***************************************************************************)
CacheRecord(op, api, lat, lon, extra, data, r) ==
    [op |-> op, api |-> api, lat |-> lat, lon |-> lon, extra |-> extra, data |-> data,
     key |-> _build_key(svc.cache.prefix, api, lat, lon, extra),
     raised |-> r.raised, value |-> r.value, wrote |-> r.wrote]

CacheGet(api, lat, lon, extra) ==
    /\ CanCall
    /\ last' = CacheRecord("cache_get", api, lat, lon, extra, PyNone,
                           [wrote |-> {}] @@ cache_get(svc.cache, storeMode, store, api, lat, lon, extra))
    /\ ncalls' = ncalls + 1
    /\ UNCHANGED <<settings, svc, storeMode, store, provider, db, tasks>>

\* the effect of a set or an invalidate with outcome r
CacheWrite(op, api, lat, lon, extra, data, r) ==
    /\ store' = r.st
    /\ last' = CacheRecord(op, api, lat, lon, extra, data, r)
    /\ ncalls' = ncalls + 1
    /\ UNCHANGED <<settings, svc, storeMode, provider, db, tasks>>

CacheSet(api, lat, lon, data, extra, ttl) ==
    /\ CanCall
    /\ CacheWrite("cache_set", api, lat, lon, extra, data,
                  [value |-> PyNone]
                      @@ cache_set(svc.cache, storeMode, store, api, lat, lon, data, extra, ttl))

CacheInvalidate(api, lat, lon, extra) ==
    /\ CanCall
    /\ CacheWrite("cache_invalidate", api, lat, lon, extra, PyNone,
                  [value |-> PyNone, wrote |-> {}]
                      @@ cache_invalidate(svc.cache, storeMode, store, api, lat, lon, extra))

\* another Redis client stores bytes under a geo key
ForeignWrite(api, lat, lon, extra, raw) ==
    /\ CanCall
    /\ storeMode = "live"
    /\ store' = redis_setex(store, _build_key(svc.cache.prefix, api, lat, lon, extra),
                            GeoCacheTtl, raw)
    /\ last' = [op |-> "foreign_write"]
    /\ ncalls' = ncalls + 1
    /\ UNCHANGED <<settings, svc, storeMode, provider, db, tasks>>

\* the Redis server goes down or comes back (while requests are still to come)
StoreFlip ==
    /\ ncalls < MaxCalls
    /\ storeMode \in {"live", "failing"}
    /\ storeMode' = IF storeMode = "live" THEN "failing" ELSE "live"
    /\ last' = [op |-> "store_flip"]
    /\ UNCHANGED <<settings, svc, store, provider, ncalls, db, tasks>>

InitCache ==
    /\ settings = Settings([geo |-> TRUE, maps_key |-> Some("AIza-maps"), google_key |-> None])
    /\ svc = Unbuilt
    /\ storeMode \in {"none", "live", "failing"}
    /\ store = EmptyStore
    /\ provider = [places |-> "OK", traffic |-> "OK"]
    /\ last = [op |-> "init"]
    /\ db = SeedDb
    /\ tasks = NoTasks
    /\ ncalls = 0

NextCache ==
    \/ Build
    \/ \E slot \in CacheSlots : CacheGet(slot[1], slot[2], GeoLon, slot[3])
    \/ \E slot \in CacheSlots, i \in DOMAIN CachePayloads, ttl \in CacheTtls :
           CacheSet(slot[1], slot[2], GeoLon, CachePayloads[i], slot[3], ttl)
    \/ \E slot \in CacheSlots : CacheInvalidate(slot[1], slot[2], GeoLon, slot[3])
    \/ \E slot \in CacheSlots, raw \in ForeignRaws :
           ForeignWrite(slot[1], slot[2], GeoLon, slot[3], raw)
    \/ StoreFlip
    \/ Expire

SpecCache == InitCache /\ [][NextCache]_vars

(***************************************************************************)
(* The two computations on their own: the traffic sample of a leg and the  *)
(* activity score of an area, over a range of provider data                *)
(***************************************************************************)
\* durations in seconds; on these pairs the exact value of ratio * 3.3 is no
\* tie (x.5), so round() of the float is round() of the exact value
TypicalSecs == {0, 1, 60, 100, 600}

LiveOptions == {None, Some(0), Some(18), Some(30), Some(60), Some(90), Some(180), Some(300),
                Some(600), Some(900), Some(1800), Some(2400)}

\* the legs behind the traffic samples of the scored areas
ScoreLegs == {[typical |-> 600, live |-> Some(180)], [typical |-> 600, live |-> Some(900)],
              [typical |-> 600, live |-> Some(2400)]}

\* place counts of the scored areas, up to the provider's page and beyond
\* the 20 places at which the density term saturates
AreaCounts == {0, 1, 5, 12, 19, 20, MaxPlaces}

AreaRatings == {None, Some(-50), Some(25), Some(42), Some(50), Some(60)}

AreaReviews == {0, 1, 10, 600, 1000, 5000}

AreaTypes == {0, 6, 15, 16}

AreaTraffic == {None} \cup {Some(TrafficFromLeg(leg)) : leg \in ScoreLegs}

\* an area of n places that all carry the given rating; the first place
\* carries the reviews and the types of the area
AreaPlaces(n, rating, reviews, types) ==
    [i \in 1..n |->
        [place_id |-> "a" \o ToString(i), name |-> "place", lat |-> 367500, lon |-> 30400,
         types |-> IF i = 1 THEN {"t" \o ToString(j) : j \in 1..types} ELSE {},
         rating |-> rating,
         user_ratings_total |-> IF i = 1 THEN Some(reviews) ELSE None,
         price_level |-> None, vicinity |-> None, business_status |-> None]]

Areas ==
    {a \in [n : AreaCounts, rating : AreaRatings, reviews : AreaReviews, types : AreaTypes] :
        a.n = 0 => (a.rating = None /\ a.reviews = 0 /\ a.types = 0)}

InitScore ==
    /\ settings = Settings([geo |-> TRUE, maps_key |-> Some("AIza-maps"), google_key |-> None])
    /\ svc = Unbuilt
    /\ storeMode = "none"
    /\ store = EmptyStore
    /\ provider = [places |-> "OK", traffic |-> "OK"]
    /\ last = [op |-> "init"]
    /\ db = SeedDb
    /\ tasks = NoTasks
    /\ ncalls = 0

\* lines 163-190 applied to a leg
TrafficSample(typical, live) ==
    /\ last.op # "activity_from_data"
    /\ last' = [op |-> "traffic_from_leg", typical |-> typical, live |-> live,
                result |-> TrafficFromLeg([typical |-> typical, live |-> live])]
    /\ UNCHANGED <<settings, svc, storeMode, store, provider, ncalls, db, tasks>>

Scored(area, traffic, rescored) ==
    [op |-> "activity_from_data", area |-> area, traffic |-> traffic, rescored |-> rescored,
     result |-> ActivityFromData(AreaPlaces(area.n, area.rating, area.reviews, area.types),
                                 traffic)]

\* lines 224-278 applied to an area
ScoreArea(area, traffic) ==
    /\ last.op = "init"
    /\ last' = Scored(area, traffic, FALSE)
    /\ UNCHANGED <<settings, svc, storeMode, store, provider, ncalls, db, tasks>>

\* the area changes in one respect and is scored again
Rescore(area) ==
    /\ last.op = "activity_from_data"
    /\ Cardinality({f \in DOMAIN area : area[f] # last.area[f]}) = 1
    /\ last' = Scored(area, last.traffic, TRUE)
    /\ UNCHANGED <<settings, svc, storeMode, store, provider, ncalls, db, tasks>>

NextScore ==
    \/ \E typical \in TypicalSecs, live \in LiveOptions : TrafficSample(typical, live)
    \/ \E area \in Areas, traffic \in AreaTraffic : ScoreArea(area, traffic)
    \/ \E area \in Areas : Rescore(area)

SpecScore == InitScore /\ [][NextScore]_vars

(***************************************************************************)
(* The demand endpoints: one request against a database, a cache and a     *)
(* provider in any of the states they can be in.  Every request builds its *)
(* services anew, so requests share nothing but the database and the cache.*)
(***************************************************************************)
\* the provider the geo service finds working
LiveProvider == [places |-> "OK", traffic |-> "OK"]

\* the provider after the demand score of a feasibility report: as before,
\* recovered, or gone
LaterProviders(prov) == {prov, LiveProvider, [places |-> "TIMEOUT", traffic |-> "TIMEOUT"]}

\* the cache as earlier requests can have left it: empty, or holding the
\* places, traffic and score entries of the Algiers cell
DemandStores(g, mode) ==
    {EmptyStore, compute_activity_score(g, mode, EmptyStore, LiveProvider, 367500, GeoLon, 2000).st}

InitDemand ==
    /\ settings \in {Settings(env) : env \in {e \in Envs : e.geo}}
    /\ storeMode \in {"none", "live", "failing"}
    /\ svc = _build_service(settings, storeMode # "none")
    /\ store \in DemandStores(svc, storeMode)
    /\ provider \in Providers
    /\ db \in DbStates
    /\ tasks = NoTasks
    /\ last = [op |-> "init"]
    /\ ncalls = 0

\* one request per behaviour
CanRequest == last.op = "init"

\* the request and its outcome, as the caller observes them
DemandRecord(op, sector, wilaya_code, limit, later, lean, r) ==
    [op |-> op, sector |-> sector, wilaya_code |-> wilaya_code, limit |-> limit,
     later |-> later, lean |-> lean, raised |-> r.raised, result |-> r.result, calls |-> r.calls,
     wrote |-> r.wrote]

ServeDemand(op, sector, wilaya_code, limit, later, lean, r) ==
    /\ store' = r.st
    /\ last' = DemandRecord(op, sector, wilaya_code, limit, later, lean, r)
    /\ ncalls' = ncalls + 1
    /\ UNCHANGED <<settings, svc, storeMode, provider, db, tasks>>

\* GET /demand/score
GetDemandScore(sector, wilaya_code) ==
    /\ CanRequest
    /\ LET gathered == _gather_signals(svc, storeMode, store, provider, db, sector, wilaya_code)
       IN  \E lean \in SidesOf(<<gathered.result>>) :
            ServeDemand("compute_demand_score", sector, wilaya_code, 0, provider, lean,
                        demand_scored(sector, wilaya_code, lean, gathered))

\* GET /demand/opportunities
GetSectorOpportunities(wilaya_code) ==
    /\ CanRequest
    /\ LET looped == opportunities_gathered(svc, storeMode, store, provider, db, wilaya_code)
       IN  \E limit \in Limits, lean \in SidesOf(looped.result) :
            ServeDemand("get_sector_opportunities", "", wilaya_code, limit, provider, lean,
                        opportunities_from(wilaya_code, limit, lean, looped))

\* GET /demand/feasibility; the provider may change after the demand score
GetFeasibilityReport(sector, wilaya_code) ==
    /\ CanRequest
    /\ LET gathered == _gather_signals(svc, storeMode, store, provider, db, sector, wilaya_code)
       IN  \E lean \in SidesOf(<<gathered.result>>), later \in LaterProviders(provider) :
            ServeDemand("get_feasibility_report", sector, wilaya_code, 0, later, lean,
                        feasibility_demand(svc, storeMode, later, db, wilaya_code,
                            demand_scored(sector, wilaya_code, lean, gathered)))

NextDemand ==
    \/ \E sector \in DemandSectors, wilaya_code \in WilayaCodes :
           GetDemandScore(sector, wilaya_code)
    \/ \E wilaya_code \in WilayaCodes : GetSectorOpportunities(wilaya_code)
    \/ \E sector \in DemandSectors, wilaya_code \in WilayaCodes :
           GetFeasibilityReport(sector, wilaya_code)

SpecDemand == InitDemand /\ [][NextDemand]_vars

(***************************************************************************)
(* The verdict specification: the verdict logic of get_feasibility_report  *)
(* applied to every demand score and every activity score of the schemas   *)
(***************************************************************************)
\* DemandScore.score: int, ge=0, le=100
DemandScores == 0..100

\* FeasibilityReport.activity_score: Optional[int], ActivityScore.score 0..100
ActivityScores == {None} \cup {Some(a) : a \in 0..100}

InitVerdict ==
    /\ settings = Settings([geo |-> TRUE, maps_key |-> Some("AIza-maps"), google_key |-> None])
    /\ svc = Unbuilt
    /\ storeMode = "none"
    /\ store = EmptyStore
    /\ provider = LiveProvider
    /\ db = SeedDb
    /\ tasks = NoTasks
    /\ ncalls = 0
    /\ \E demand_score \in DemandScores, activity_score \in ActivityScores :
         last = [op |-> "scores", demand_score |-> demand_score,
                 activity_score |-> activity_score]

\* lines 440-447 applied to the two scores
Verdict ==
    /\ last.op = "scores"
    /\ last' = [op |-> "verdict", demand_score |-> last.demand_score,
                activity_score |-> last.activity_score,
                result |-> verdict(last.demand_score, last.activity_score)]
    /\ UNCHANGED <<settings, svc, storeMode, store, provider, ncalls, db, tasks>>

NextVerdict == Verdict

SpecVerdict == InitVerdict /\ [][NextVerdict]_vars

(***************************************************************************)
(* The profile specification: compute_demand_score without a location for  *)
(* every sector of the profile table                                       *)
(***************************************************************************)
\* the keys of SECTOR_PROFILES
ProfileSectors == {SectorOrder[i] : i \in 1..Len(SectorOrder)}

NextProfiles == \E sector \in ProfileSectors : GetDemandScore(sector, None)

SpecProfiles == InitDemand /\ [][NextProfiles]_vars

(***************************************************************************)
(* The concurrent specification: requests of the geo service as coroutines *)
(* on one grid cell. A coroutine runs alone between two awaits and can be  *)
(* overtaken at each of them: await self.cache.get (the read of the        *)
(* store), await resp.json() (the provider's answer) and await             *)
(* self.cache.set (the write to the store).                                *)
(***************************************************************************)
\* one suspension point: at is "get", "fetch" or "set"; call is the method
\* the coroutine is in: "places" and "traffic" (called by the endpoint or by
\* get_area_intelligence), "score", "score.places" and "score.traffic" (the
\* calls of compute_activity_score), "intelligence"
Step(at, call) == [at |-> at, call |-> call]

\* get_nearby_places and get_traffic_density: cache.get, the request, cache.set
CallSteps(call) == <<Step("get", call), Step("fetch", call), Step("set", call)>>

\* compute_activity_score: cache.get, the two calls, cache.set
ScoreSteps ==
    <<Step("get", "score")>> \o CallSteps("score.places") \o CallSteps("score.traffic")
        \o <<Step("set", "score")>>

\* get_area_intelligence: cache.get, the three calls, cache.set
IntelligenceSteps ==
    <<Step("get", "intelligence")>> \o CallSteps("places") \o CallSteps("traffic")
        \o ScoreSteps \o <<Step("set", "intelligence")>>

StepsOf(kind) ==
    CASE kind = "places" -> CallSteps("places")
      [] kind = "traffic" -> CallSteps("traffic")
      [] kind = "score" -> ScoreSteps
      [] OTHER -> IntelligenceSteps

\* a coroutine at its start: the suspension points ahead of it, its local
\* variables, the keys it read with a hit and its writes
Task(kind, place_type) ==
    [kind |-> kind, place_type |-> place_type, steps |-> StepsOf(kind), state |-> "running",
     answer |-> None, places |-> <<>>, traffic |-> None, splaces |-> <<>>,
     straffic |-> None, activity |-> None, response |-> None, hits |-> {},
     wrote |-> [k \in {} |-> None]]

\* the step belongs to the call (or to a call made by it)
InCall(inner, call) ==
    \/ inner = call
    \/ call = "score" /\ inner \in {"score.places", "score.traffic"}
    \/ call = "intelligence"

\* the suspension points left when the call returns early
RECURSIVE SkipCall(_, _)
SkipCall(steps, call) ==
    IF Len(steps) = 0 \/ ~InCall(Head(steps).call, call) THEN steps
    ELSE SkipCall(Tail(steps), call)

\* the namespace of the cache entry of a call
ApiOf(call) ==
    CASE call \in {"places", "score.places"} -> "places"
      [] call \in {"traffic", "score.traffic"} -> "traffic"
      [] call = "score" -> "score"
      [] OTHER -> "intelligence"

\* the place_type argument of a get_nearby_places call: compute_activity_score
\* passes none
CallType(t, call) == IF call = "places" THEN t.place_type ELSE None

\* the extra argument of the cache calls of a call
CallExtra(t, call, radius) ==
    CASE ApiOf(call) = "places" -> places_extra(radius, CallType(t, call))
      [] ApiOf(call) = "traffic" -> ""
      [] ApiOf(call) = "score" -> ToString(radius)
      [] OTHER -> intelligence_extra(radius, t.place_type)

\* the call returns value; the coroutine goes on with rest, or returns when
\* the call is the request itself
Bind(t, call, value, rest) ==
    [t EXCEPT !.places = IF call = "places" THEN value ELSE @,
              !.traffic = IF call = "traffic" THEN value ELSE @,
              !.splaces = IF call = "score.places" THEN value ELSE @,
              !.straffic = IF call = "score.traffic" THEN value ELSE @,
              !.activity = IF call = "score" THEN Some(value) ELSE @,
              !.response = IF call = "intelligence" THEN Some(value) ELSE @,
              !.answer = None,
              !.steps = IF call = t.kind THEN <<>> ELSE rest,
              !.state = IF call = t.kind THEN "returned" ELSE "running"]

\* an exception leaves the call: no caller catches it
Raise(t) == [t EXCEPT !.steps = <<>>, !.state = "raised", !.answer = None]

\* the object built from a cache hit: [exc] or [exc, value]
HitValue(api, cached) ==
    CASE api = "places" ->
            IF PlacesFromCache(cached).exc THEN [exc |-> TRUE]
            ELSE [exc |-> FALSE, value |-> PlacesFromCache(cached).places]
      [] api = "traffic" ->
            IF TrafficFromCache(cached).exc THEN [exc |-> TRUE]
            ELSE [exc |-> FALSE, value |-> Some(TrafficFromCache(cached).traffic)]
      [] api = "score" ->
            IF ActivityFromCache(cached).exc THEN [exc |-> TRUE]
            ELSE [exc |-> FALSE, value |-> ActivityFromCache(cached).activity]
      [] OTHER ->
            IF ResponseFromCache(cached).exc THEN [exc |-> TRUE]
            ELSE [exc |-> FALSE, value |-> ResponseFromCache(cached).response]

\* if cached: return ...; the key is noted as read with a hit
resume_hit(t, call, key, hit) ==
    IF hit.exc THEN Raise(t)
    ELSE [Bind(t, call, hit.value, SkipCall(Tail(t.steps), call))
            EXCEPT !.hits = @ \cup {key}]

\* after await self.cache.get(...)
resume_get(t, call, key, cached) ==
    IF Truthy(cached) THEN resume_hit(t, call, key, HitValue(ApiOf(call), cached))
    ELSE [t EXCEPT !.steps = Tail(@)]

\* a call up to its cache.get: get_nearby_places and get_traffic_density
\* return at once without a key
step_get(t, call, g, mode, st, lat, lon, radius) ==
    IF ApiOf(call) \in {"places", "traffic"} /\ ~_is_available(g)
    THEN Bind(t, call, IF ApiOf(call) = "places" THEN <<>> ELSE None,
              SkipCall(Tail(t.steps), call))
    ELSE resume_get(t, call,
                    _build_key(g.cache.prefix, ApiOf(call), lat, lon,
                               CallExtra(t, call, radius)),
                    cache_get(g.cache, mode, st, ApiOf(call), lat, lon,
                              CallExtra(t, call, radius)).value)

\* the provider's answer to the request of the call
step_fetch(t, call, prov) ==
    [t EXCEPT !.steps = Tail(@),
              !.answer = Some(IF ApiOf(call) = "places"
                              THEN places_api(prov, IF TruthyStr(CallType(t, call))
                                                    THEN CallType(t, call) ELSE None)
                              ELSE directions_api(prov))]

\* the rest of the call, from the answer (or the results of its calls) to
\* its return through cache.set: [raised, result, st, wrote]
call_rest(t, call, g, mode, st, lat, lon, radius) ==
    CASE ApiOf(call) = "places" ->
            nearby_except(st, nearby_status(g, mode, st, lat, lon,
                                            CallExtra(t, call, radius), Val(t.answer)))
      [] ApiOf(call) = "traffic" ->
            traffic_except(st, traffic_status(g, mode, st, lat, lon, Val(t.answer)))
      [] ApiOf(call) = "score" ->
            score_result(g, mode, st, lat, lon, radius, {}, {},
                         ActivityFromData(t.splaces, t.straffic))
      [] OTHER ->
            intelligence_location(g, mode, lat, lon, CallExtra(t, call, radius), {}, {},
                                  [result |-> t.places], [result |-> t.traffic],
                                  [result |-> Val(t.activity), st |-> st],
                                  LocationQuery(lat, lon, radius))

\* the writes of the coroutine with the writes of a call: by key, the
\* namespace and the text of its last write
Writes(wrote, api, r) ==
    [k \in DOMAIN wrote \cup r.wrote |->
        IF k \in r.wrote THEN [api |-> api, raw |-> r.st[k].raw] ELSE wrote[k]]

step_set(t, call, r) ==
    IF r.raised THEN Raise(t)
    ELSE [Bind(t, call, r.result, Tail(t.steps))
            EXCEPT !.wrote = Writes(@, ApiOf(call), r)]

\* the requests in flight
TaskIds == {"r1", "r2"}

\* the four requests, the two with a category also with one
TaskKinds ==
    {Task(kind, None) : kind \in {"places", "traffic", "score", "intelligence"}}
        \cup {Task(kind, Some("cafe")) : kind \in {"places", "intelligence"}}

\* the provider while the requests run: it answers, or it has nothing around
\* the point and its Directions API times out
ConcurrentProviders ==
    {LiveProvider, [places |-> "ZERO_RESULTS", traffic |-> "TIMEOUT"]}

\* the query point and the radius of the requests
TaskLat == CHOOSE lat \in GeoLats : TRUE

TaskRadius == CHOOSE radius \in Radii : TRUE

InitConcurrent ==
    /\ settings \in {Settings(env) : env \in {e \in Envs : e.geo}}
    /\ storeMode = "live"
    /\ svc = _build_service(settings, TRUE)
    /\ store = EmptyStore
    /\ provider \in ConcurrentProviders
    /\ db = SeedDb
    /\ tasks \in [TaskIds -> TaskKinds]
    /\ last = [op |-> "init"]
    /\ ncalls = 0

\* the coroutine r is suspended at a step of the kind at
Suspended(r, at) ==
    /\ tasks[r].state = "running"
    /\ Head(tasks[r].steps).at = at

\* await self.cache.get(...) returns to r
AwaitCacheGet(r) ==
    /\ Suspended(r, "get")
    /\ tasks' = [tasks EXCEPT ![r] = step_get(tasks[r], Head(tasks[r].steps).call, svc,
                                              storeMode, store, TaskLat, GeoLon, TaskRadius)]
    /\ UNCHANGED <<settings, svc, storeMode, store, provider, db, last, ncalls>>

\* await resp.json() returns to r
AwaitProvider(r) ==
    /\ Suspended(r, "fetch")
    /\ tasks' = [tasks EXCEPT ![r] = step_fetch(tasks[r], Head(tasks[r].steps).call,
                                                provider)]
    /\ UNCHANGED <<settings, svc, storeMode, store, provider, db, last, ncalls>>

\* r runs to the end of the call: the write of cache.set reaches the store
Returned(r, call, res) ==
    /\ tasks' = [tasks EXCEPT ![r] = step_set(tasks[r], call, res)]
    /\ store' = res.st

AwaitCacheSet(r) ==
    /\ Suspended(r, "set")
    /\ Returned(r, Head(tasks[r].steps).call,
                call_rest(tasks[r], Head(tasks[r].steps).call, svc, storeMode, store,
                          TaskLat, GeoLon, TaskRadius))
    /\ UNCHANGED <<settings, svc, storeMode, provider, db, last, ncalls>>

\* the provider's condition changes while the requests run
ProviderChange(prov) ==
    /\ prov # provider
    /\ \E r \in TaskIds : tasks[r].state = "running"
    /\ provider' = prov
    /\ UNCHANGED <<settings, svc, storeMode, store, db, tasks, last, ncalls>>

NextConcurrent ==
    \/ \E r \in TaskIds : AwaitCacheGet(r)
    \/ \E r \in TaskIds : AwaitProvider(r)
    \/ \E r \in TaskIds : AwaitCacheSet(r)
    \/ \E prov \in ConcurrentProviders : ProviderChange(prov)

SpecConcurrent == InitConcurrent /\ [][NextConcurrent]_vars

(***************************************************************************)
(* Properties                                                              *)
(***************************************************************************)
\* C1: a set at one point followed by a get at a point whose latitude and
\* longitude round to the same 3-decimal values (same namespace and
\* qualifier) builds the identical key and, with a live store and a value
\* that was stored, returns the stored value.
C1_SameCellRoundTrip ==
    [][(/\ last.op = "cache_set" /\ last'.op = "cache_get"
        /\ last'.api = last.api /\ last'.extra = last.extra
        /\ RoundedMilli(last'.lat) = RoundedMilli(last.lat)
        /\ RoundedMilli(last'.lon) = RoundedMilli(last.lon))
       => /\ last'.key = last.key
          /\ (storeMode = "live" /\ last.wrote # {}) => last'.value = last.data]_vars

\* whether the text stored under key cannot be decoded
C2_Undecodable(st, key) == key \in DOMAIN st /\ st[key].raw.kind = "garbage"

\* C2: get, set and invalidate never raise; with the store absent or failing
\* they leave the store alone and get returns not-found; a payload that
\* cannot be encoded is not stored, a text that cannot be decoded reads as
\* not-found.
C2_CacheNeverRaises ==
    [][last'.op \in {"cache_get", "cache_set", "cache_invalidate"}
       => /\ ~last'.raised
          /\ storeMode # "live"
                => (store' = store /\ (last'.op = "cache_get" => last'.value = PyNone))
          /\ (last'.op = "cache_set" /\ last'.data = PyCircular) => store' = store
          /\ (last'.op = "cache_get" /\ C2_Undecodable(store, last'.key))
                => last'.value = PyNone]_vars

\* a set that the failing store refused, without an exception
C2_Witness == last.op = "cache_set" /\ storeMode = "failing" /\ ~last.raised /\ last.wrote = {}

\* the outcome of the last request when the service has no backing store
C3_Reference ==
    LET g == [svc EXCEPT !.cache.redis = FALSE]
    IN  CASE last.op = "get_nearby_places" ->
                 get_nearby_places(g, "none", EmptyStore, provider, last.lat, last.lon,
                                   last.radius, last.place_type)
          [] last.op = "get_traffic_density" ->
                 get_traffic_density(g, "none", EmptyStore, provider, last.lat, last.lon)
          [] last.op = "compute_activity_score" ->
                 compute_activity_score(g, "none", EmptyStore, provider, last.lat, last.lon,
                                        last.radius)
          [] last.op = "get_area_intelligence" ->
                 get_area_intelligence(g, "none", EmptyStore, provider, last.lat, last.lon,
                                       last.radius, last.place_type)

\* the payload of an outcome, the cached flag of a bundle left out
C3_Payload(op, r) ==
    IF op = "get_area_intelligence" /\ ~r.raised
    THEN [f \in DOMAIN r.result \ {"cached"} |-> r.result[f]]
    ELSE r.result

\* C3: with a provider whose answers are fixed, every request returns the
\* payload (the cached flag aside) that the same request returns from a
\* service without a backing store, whether the store is absent, failing or
\* live and whatever requests came before.
C3_CacheTransparent ==
    last.op \in {"get_nearby_places", "get_traffic_density", "compute_activity_score",
                 "get_area_intelligence"}
       => /\ last.raised = C3_Reference.raised
          /\ C3_Payload(last.op, last) = C3_Payload(last.op, C3_Reference)

\* C4: a get_nearby_places call whose provider request fails (timeout or
\* transport error, malformed record, non-success status) returns the empty
\* list, raises nothing and leaves the store as it was.
C4_PlacesFailureIsEmpty ==
    [][(/\ last'.op = "get_nearby_places" /\ "places" \in last'.calls
        /\ provider'.places \in {"TIMEOUT", "MALFORMED", "REQUEST_DENIED"})
       => (~last'.raised /\ last'.result = <<>> /\ last'.wrote = {} /\ store' = store)]_vars

\* a malformed provider record met by a service with a live store
C4_Witness ==
    /\ last.op = "get_nearby_places" /\ "places" \in last.calls
    /\ provider.places = "MALFORMED" /\ storeMode = "live"
    /\ last.result = <<>> /\ DOMAIN store = {}

\* C5: with no provider credential configured, building the service does not
\* raise, and get_nearby_places returns the empty list and
\* get_traffic_density no data, without a provider call.
C5_NoCredentialSilent ==
    /\ (/\ last.op = "build"
        /\ IsNone(settings.GOOGLE_MAPS_API_KEY) /\ IsNone(settings.GOOGLE_API_KEY))
           => ~last.raised
    /\ (svc.built = "yes" /\ ~_is_available(svc) /\ last.op = "get_nearby_places")
           => (~last.raised /\ last.result = <<>> /\ last.calls = {})
    /\ (svc.built = "yes" /\ ~_is_available(svc) /\ last.op = "get_traffic_density")
           => (~last.raised /\ last.result = None /\ last.calls = {})

\* round(clamp(ratio * 3.3, 1, 10)) with ratio = live / max(typical, 1)
C6_RoundOfClamp(typical, live) ==
    LET den == 10 * (IF typical >= 1 THEN typical ELSE 1)
        num == 33 * live
    IN  IF num <= den THEN 1 ELSE IF num >= 10 * den THEN 10 ELSE PyRound(num, den)

\* C6: the congestion level of a leg is round(clamp(ratio * 3.3, 1, 10)), an
\* integer in 1..10; ratio 1.0 gives 3, ratio >= 3.0 gives 10, ratio 0.3
\* gives 1.
C6_CongestionFormula ==
    last.op = "traffic_from_leg"
       => LET den   == IF last.typical >= 1 THEN last.typical ELSE 1
              live  == IF IsNone(last.live) THEN last.typical ELSE Val(last.live)
              level == last.result.congestion_level
          IN  /\ level = C6_RoundOfClamp(last.typical, live)
              /\ level \in 1..10
              /\ live = den => level = 3
              /\ live >= 3 * den => level = 10
              /\ 10 * live = 3 * den => level = 1

\* a leg at ratio 0.3, clamped from 0.99 to level 1
C6_Witness ==
    /\ last.op = "traffic_from_leg" /\ last.typical = 60 /\ last.live = Some(18)
    /\ last.result.congestion_level = 1

\* C7: get_traffic_density without a credential, or with a provider request
\* that fails or ends in a non-success status, returns no data and leaves
\* the store as it was; a TrafficDensity that is returned is the one computed
\* from the provider's durations, by this request or by the one that cached it.
C7_NoFabricatedTraffic ==
    [][last'.op = "get_traffic_density"
       => /\ ~_is_available(svc)
                => (last'.result = None /\ last'.calls = {} /\ store' = store)
          /\ ("directions" \in last'.calls /\ provider'.traffic # "OK")
                => (~last'.raised /\ last'.result = None /\ store' = store)
          /\ last'.result # None
                => /\ last'.result = Some(TrafficFromLeg(ProviderLeg))
                   /\ last'.calls = {}
                         => _build_key(svc.cache.prefix, "traffic", last'.lat, last'.lon, "")
                               \in DOMAIN store
                   /\ last'.calls # {} => provider'.traffic = "OK"]_vars

\* a non-success status of the directions API met by a service with a live store
C7_Witness ==
    /\ last.op = "get_traffic_density" /\ "directions" \in last.calls
    /\ provider.traffic = "NOT_FOUND" /\ storeMode = "live"
    /\ ~last.raised /\ last.result = None

\* C8: every activity score is an integer in 0..100 and carries the label of
\* its band: >= 80 Very High, >= 55 High, >= 30 Moderate, else Low.
C8_ScoreRangeAndLabel ==
    last.op = "activity_from_data"
       => /\ last.result.score \in 0..100
          /\ last.result.score >= 80 => last.result.label = "Very High"
          /\ last.result.score \in 55..79 => last.result.label = "High"
          /\ last.result.score \in 30..54 => last.result.label = "Moderate"
          /\ last.result.score < 30 => last.result.label = "Low"

\* an area without places and without a traffic sample
C8_Witness ==
    /\ last.op = "activity_from_data" /\ last.area.n = 0 /\ last.traffic = None
    /\ last.result.score = 4 /\ last.result.label = "Low"

\* the average rating of an area (0 when no place is rated)
C9_Rating(area) == IF IsNone(area.rating) \/ area.n = 0 THEN 0 ELSE Val(area.rating)

\* C9: when an area is scored again with the same traffic sample and with
\* place count, average rating, total reviews and distinct categories each
\* at least what they were, the score is at least what it was.
C9_ScoreMonotone ==
    [][(/\ last.op = "activity_from_data" /\ last'.op = "activity_from_data"
        /\ last'.rescored
        /\ last'.traffic = last.traffic
        /\ last'.area.n >= last.area.n
        /\ C9_Rating(last'.area) >= C9_Rating(last.area)
        /\ last'.area.reviews >= last.area.reviews
        /\ last'.area.types >= last.area.types)
       => last'.result.score >= last.result.score]_vars

\* an area scored again after its place count reached 20
C9_Witness ==
    /\ last.op = "activity_from_data" /\ last.rescored
    /\ last.area = [n |-> 20, rating |-> Some(42), reviews |-> 600, types |-> 6]

\* C10: with a live cache, a get_area_intelligence call that immediately
\* follows one with the same latitude, longitude, radius and category is
\* served without a provider call, marked cached, with the payload of the
\* first (the flag aside); a bundle that was just computed is marked not
\* cached; no entry of the "intelligence" namespace contains the flag.
C10_RepeatIsCachedCopy ==
    /\ [](\A key \in DOMAIN store :
             key \in {_build_key(svc.cache.prefix, "intelligence", lat, GeoLon,
                                 intelligence_extra(radius, place_type)) :
                         lat \in GeoLats, radius \in Radii, place_type \in PlaceTypes}
                => "cached" \notin DOMAIN store[key].raw.val.v)
    /\ [][(/\ last.op = "get_area_intelligence" /\ last'.op = "get_area_intelligence"
           /\ last'.lat = last.lat /\ last'.lon = last.lon
           /\ last'.radius = last.radius /\ last'.place_type = last.place_type
           /\ storeMode = "live" /\ ~last.raised)
          => /\ ~last'.raised
             /\ last'.calls = {}
             /\ last'.result.cached
             /\ last.wrote # {} => ~last.result.cached
             /\ [f \in DOMAIN last'.result \ {"cached"} |-> last'.result[f]]
                   = [f \in DOMAIN last.result \ {"cached"} |-> last.result[f]]]_vars

\* the second of two requests, served from the bundle the first one stored
C10_Witness ==
    /\ last.op = "get_area_intelligence" /\ ~last.raised /\ ncalls = 2
    /\ last.result.cached /\ Len(last.result.nearby_places) = 2

\* the DemandScore values a request returned: the result of
\* compute_demand_score, or the demand_score of a feasibility report
ReturnedDemandScores ==
    IF last.op = "compute_demand_score" /\ ~last.raised THEN {last.result}
    ELSE IF last.op = "get_feasibility_report" /\ ~last.raised THEN {last.result.demand_score}
    ELSE {}

RECURSIVE SumWeights(_)
SumWeights(signals) ==
    IF Len(signals) = 0 THEN 0 ELSE Head(signals).weight + SumWeights(Tail(signals))

\* C11: every DemandScore that compute_demand_score returns, whatever the
\* sector, the location and the state of the database, the cache and the
\* provider, carries five signals whose weights sum to 1.0 and a score in
\* 0..100 that equals round(clamp(0, 100, sum of the weighted scores)).
C11_ScoreIsRoundedClampedSum ==
    \A ds \in ReturnedDemandScores :
        /\ Len(ds.signals) = 5
        /\ SumWeights(ds.signals) = 100
        /\ ds.score \in 0..100
        /\ ds.score = RoundLean(Min2(1000, Max2(0, SumWeighted(ds.signals))), 10, last.lean)

\* a score was returned for Ouargla, whose row has a population and no
\* coordinates: two of the signals are fallbacks and the total is no integer
C11_Witness ==
    /\ last.op = "compute_demand_score" /\ ~last.raised
    /\ SumWeighted(last.result.signals) % 10 \notin {0, 5}
    /\ last.wilaya_code = Some("14")
    /\ last.result.signals[2].detail = "Based on sector averages (no geo data)"
    /\ last.result.signals[3].detail = "Population"
    /\ last.result.signals[4].detail = "No geo data available"

\* C12: whichever queries of the database fail, compute_demand_score raises
\* nothing and returns five signals: Pricing and Economic at their fallback
\* when a time-series query failed, Competition, Demographics and Activity
\* at theirs when the Wilaya query failed.
C12_SignalsRecoverLocally ==
    last.op = "compute_demand_score" =>
        /\ ~last.raised
        /\ Len(last.result.signals) = 5
        /\ (db.down \cap {"sector", "time_series_data"} # {}
                => last.result.signals[1] = pricing_except)
        /\ ("time_series_data" \in db.down => last.result.signals[5].score = 500)
        /\ ("wilaya" \in db.down /\ TruthyStr(last.wilaya_code)
                => /\ last.result.signals[2] = competition_fallback(last.sector)
                   /\ last.result.signals[3] = demographics_fallback
                   /\ last.result.signals[4] = activity_fallback)

\* the geo service has no credential, or the provider answers the request
\* with a transport error, a timeout or a non-success status
ProviderUnavailable(g, prov) ==
    \/ ~_is_available(g)
    \/ prov \in {[places |-> "TIMEOUT", traffic |-> "TIMEOUT"],
                 [places |-> "REQUEST_DENIED", traffic |-> "NOT_FOUND"]}

\* the Wilaya query answers with a row that has coordinates
ResolvesToCoordinates(d, wilaya_code) ==
    /\ TruthyStr(wilaya_code)
    /\ ~select_wilaya(d, wilaya_code).exc
    /\ has_coordinates(select_wilaya(d, wilaya_code).value)

\* C13: when the location resolves to coordinates, the provider is
\* unavailable and the cache holds nothing, the Competition Density signal
\* of compute_demand_score is the fallback 0.85 x base demand and the Area
\* Activity signal is the fallback 50.
C13_UnavailableProviderFallbacks ==
    [][(/\ last'.op = "compute_demand_score" /\ ~last'.raised
        /\ ResolvesToCoordinates(db, last'.wilaya_code)
        /\ ProviderUnavailable(svc, provider)
        /\ store = EmptyStore)
       => /\ last'.result.signals[2] = competition_fallback(last'.sector)
          /\ last'.result.signals[4] = activity_fallback]_vars

\* the position of a sector in the profile table
SectorIndex(sector) == CHOOSE i \in 1..Len(SectorOrder) : SectorOrder[i] = sector

\* a goes before b in the ranking: a higher score, or the same score and an
\* earlier place in the profile table
RanksBefore(a, b) ==
    \/ a.score > b.score
    \/ a.score = b.score /\ SectorIndex(a.sector) < SectorIndex(b.sector)

\* the ranking the claim describes, from the unsorted opportunities
IsRankingOf(res, all, limit) ==
    /\ Len(res) = Min2(limit, Len(SectorOrder))
    /\ \A i \in 1..Len(res) :
         /\ res[i].rank = i
         /\ [res[i] EXCEPT !.rank = 0] = all[SectorIndex(res[i].sector)]
    /\ \A i \in 1..Len(res) : \A j \in 1..Len(res) :
         i < j => /\ res[i].score >= res[j].score
                  /\ RanksBefore(res[i], res[j])
    /\ \A k \in 1..Len(all) :
         (\A i \in 1..Len(res) : res[i].sector # all[k].sector)
         => \A i \in 1..Len(res) : RanksBefore(res[i], all[k])

\* C14: get_sector_opportunities(location, limit) with limit >= 1 returns
\* the profile table stably sorted by descending demand score and truncated
\* to limit: N = min(limit, number of profiles) entries, non-increasing
\* scores, ties in profile-table order, the entry at position i with rank
\* i+1 (1..N here, sequences being 1-based), and no left-out profile ranks
\* before a returned one.
C14_OpportunitiesRanked ==
    [][\A wilaya_code \in WilayaCodes, lean \in Leans :
         (/\ last'.op = "get_sector_opportunities" /\ ~last'.raised
          /\ last'.wilaya_code = wilaya_code /\ last'.lean = lean)
         => LET all == Prefix(opportunities_results(wilaya_code, lean,
                                  opportunities_gathered(svc, storeMode, store, provider,
                                                         db, wilaya_code).result),
                              Len(SectorOrder))
            IN  IsRankingOf(last'.result, all, last'.limit)]_vars

\* a truncated ranking with a tie between two neighbours that the profile
\* table decides, for a location with coordinates
C14_Witness ==
    /\ last.op = "get_sector_opportunities" /\ ~last.raised
    /\ last.limit = 5 /\ Len(last.result) = 5
    /\ last.wilaya_code = Some("01")
    /\ \E i \in 1..4 : last.result[i].score = last.result[i + 1].score
    /\ last.result[1].score > last.result[5].score

\* the activity cutoff passes: the activity score is unknown or at least 40
ActivityPasses(activity_score) == IsNone(activity_score) \/ Val(activity_score) >= 40

\* C15: the feasibility verdict is a function of (demand score, activity
\* score): Highly Favorable iff demand >= 75 and activity is unknown or
\* >= 40; otherwise Feasible iff demand >= 55; otherwise Risky iff demand
\* >= 35; otherwise Not Recommended, for every demand score in 0..100 and
\* every activity score in 0..100 or absent.
C15_VerdictThresholds ==
    last.op = "verdict" =>
        LET d == last.demand_score
            favorable == d >= 75 /\ ActivityPasses(last.activity_score)
        IN  /\ (last.result = "Highly Favorable") <=> favorable
            /\ (last.result = "Feasible") <=> (~favorable /\ d >= 55)
            /\ (last.result = "Risky") <=> (~favorable /\ d < 55 /\ d >= 35)
            /\ (last.result = "Not Recommended") <=> (~favorable /\ d < 35)

\* demand exactly at 75 with activity just under the cutoff is Feasible
C15_Witness ==
    /\ last.op = "verdict"
    /\ last.demand_score = 75 /\ last.activity_score = Some(39)
    /\ last.result = "Feasible"

\* C16: in a FeasibilityReport the activity score, the competitor count and
\* the average competitor rating are present only if geo is available (a geo
\* service with a usable provider) and the location resolves to
\* coordinates; otherwise (here with nothing in the cache either) all three
\* are absent and the verdict is the one of an unknown activity score.
C16_GeoFieldsOnlyWithGeo ==
    [][(/\ last'.op = "get_feasibility_report" /\ ~last'.raised
        /\ store = EmptyStore
        /\ ~(/\ has_geo(svc)
             /\ ~ProviderUnavailable(svc, provider)
             /\ ~ProviderUnavailable(svc, last'.later)
             /\ ResolvesToCoordinates(db, last'.wilaya_code)))
       => /\ IsNone(last'.result.activity_score)
          /\ IsNone(last'.result.competition_count)
          /\ IsNone(last'.result.avg_competitor_rating)
          /\ last'.result.verdict = verdict(last'.result.demand_score.score, None)]_vars

\* the scores of the signals of a DemandScore, in order
SignalScores(ds) == [i \in 1..Len(ds.signals) |-> ds.signals[i].score]

\* C17: for a location code the Wilaya table has no row for,
\* compute_demand_score does not fail and returns the same five signal
\* scores and the same composite score as for the same sector with no
\* location, Competition, Demographics and Activity being at their
\* no-location fallbacks.
C17_UnknownCodeAsNoLocation ==
    [][\A sector \in DemandSectors, lean \in Leans :
         (/\ last'.op = "compute_demand_score"
          /\ last'.sector = sector /\ last'.lean = lean
          /\ TruthyStr(last'.wilaya_code)
          /\ ~select_wilaya(db, last'.wilaya_code).exc
          /\ IsNone(select_wilaya(db, last'.wilaya_code).value))
         => LET nowhere == compute_demand_score(svc, storeMode, store, provider, db,
                                                sector, None, lean)
            IN  /\ ~last'.raised /\ ~nowhere.raised
                /\ Len(last'.result.signals) = 5
                /\ SignalScores(last'.result) = SignalScores(nowhere.result)
                /\ last'.result.score = nowhere.result.score
                /\ last'.result.signals[2] = competition_fallback(sector)
                /\ last'.result.signals[3] = demographics_fallback
                /\ last'.result.signals[4] = activity_fallback]_vars

\* a returned score for the code 99, which has no row, with a working geo
\* service and sector data
C17_Witness ==
    /\ last.op = "compute_demand_score" /\ ~last.raised
    /\ last.wilaya_code = Some("99") /\ last.sector = "agriculture"
    /\ "99" \notin DOMAIN db.wilayas /\ db.down = {}
    /\ _is_available(svc) /\ provider = LiveProvider
    /\ last.result.signals[1].detail = "data points analyzed"
    /\ last.result.signals[3] = demographics_fallback

\* the queries answer: no time-series row counted for the sector and no
\* row from an economic source
ZeroData(d, sector) ==
    /\ d.down = {}
    /\ select_count(d, select_sector_id(d, sector).value).value = 0
    /\ select_macro_count(d).value = 0

\* clamp(0, 100, x) in tenths
Clamp1000(tenths) == Min2(1000, Max2(0, tenths))

OwnPayload(t, call) ==
    CASE call = "places" -> PyList(t.places)
      [] call = "score.places" -> PyList(t.splaces)
      [] call = "traffic" -> PyDict(Val(t.traffic))
      [] call = "score.traffic" -> PyDict(Val(t.straffic))
      [] call = "score" -> PyDict(Val(t.activity))
      [] OTHER -> PyDict(DumpWithoutCached(Val(t.response)))

\* the step of r wrote the whole entry under key from its own value, and r
\* had not read the entry with a hit
FullOverwrite(r, key) ==
    /\ Suspended(r, "set")
    /\ tasks'[r] # tasks[r] /\ tasks'[r].state # "raised"
    /\ key = _build_key(svc.cache.prefix, ApiOf(Head(tasks[r].steps).call), TaskLat, GeoLon,
                        CallExtra(tasks[r], Head(tasks[r].steps).call, TaskRadius))
    /\ key \notin tasks[r].hits
    /\ store'[key].raw = json_dumps(OwnPayload(tasks'[r], Head(tasks[r].steps).call)).text

\* the text decodes to an object of the namespace
EntryComplete(api, raw) ==
    /\ ~json_loads(raw).exc
    /\ ~HitValue(api, json_loads(raw).value).exc

\* the entry under key is what one coroutine wrote last under it
WrittenByOne(key) ==
    \E r \in TaskIds :
        /\ key \in DOMAIN tasks[r].wrote
        /\ tasks[r].wrote[key].raw = store[key].raw
        /\ EntryComplete(tasks[r].wrote[key].api, store[key].raw)

\* what a returned coroutine returns has every part of its type
ResultComplete(t) ==
    CASE t.kind = "places" ->
            \A i \in 1..Len(t.places) : PlaceRequired \subseteq DOMAIN t.places[i]
      [] t.kind = "traffic" ->
            IsNone(t.traffic) \/ Val(t.traffic).congestion_level \in 1..10
      [] t.kind = "score" ->
            ~IsNone(t.activity) /\ Val(t.activity).score \in 0..100
      [] OTHER ->
            /\ ~IsNone(t.response)
            /\ {"location", "activity_score", "traffic", "nearby_places", "cached"}
                    \subseteq DOMAIN Val(t.response)
            /\ Val(t.response).activity_score.score \in 0..100
            /\ \A i \in 1..Len(Val(t.response).nearby_places) :
                    PlaceRequired \subseteq DOMAIN Val(t.response).nearby_places[i]

\* C19: under any interleaving of concurrent requests on one grid cell, no
\* coroutine rewrites an entry it read: every change of the store is the
\* full overwrite of one entry by the value of one coroutine; every entry
\* holds one complete payload that one request wrote; and every request
\* returns, with a complete result.
C19_WritesAreFullOverwrites ==
    /\ [](/\ \A key \in DOMAIN store : WrittenByOne(key)
          /\ \A r \in TaskIds :
                /\ tasks[r].state # "raised"
                /\ tasks[r].state = "returned" => ResultComplete(tasks[r]))
    /\ [][/\ DOMAIN store \subseteq DOMAIN store'
          /\ \A key \in DOMAIN store' :
                (key \notin DOMAIN store \/ store'[key] # store[key])
                => \E r \in TaskIds : FullOverwrite(r, key)]_vars

\* two requests have returned after writing different payloads under the
\* same key; the store holds the one written last
C19_Witness ==
    /\ \A r \in TaskIds : tasks[r].state = "returned"
    /\ \E key \in DOMAIN tasks["r1"].wrote \cap DOMAIN tasks["r2"].wrote :
         /\ tasks["r1"].wrote[key].raw # tasks["r2"].wrote[key].raw
         /\ store[key].raw = tasks["r1"].wrote[key].raw
    /\ tasks["r1"].kind = "intelligence" /\ tasks["r2"].kind = "score"

\* C20: read-through: after get_nearby_places has obtained a successful
\* provider answer (any number of places, none included) and written it
\* back, the next call for the same grid cell, radius and category, with a
\* live cache and before the entry expires, is served from the "places"
\* namespace and makes no provider call.
C20_ReadThroughAfterWrite ==
    [][(/\ last.op = "get_nearby_places" /\ ~last.raised
        /\ last.calls = {"places"} /\ last.wrote # {}
        /\ last'.op = "get_nearby_places"
        /\ last'.lat = last.lat /\ last'.lon = last.lon
        /\ last'.radius = last.radius /\ last'.place_type = last.place_type
        /\ storeMode = "live")
       => /\ ~last'.raised
          /\ last'.calls = {}
          /\ last'.wrote = {}
          /\ last'.result = last.result]_vars

\* the places of the area that was scored last
C21_Places == AreaPlaces(last.area.n, last.area.rating, last.area.reviews, last.area.types)

\* C21: in compute_activity_score each of the five terms lies within its
\* own cap before the sum is taken, for any place data: density in 0..30,
\* rating in 0..20, review volume in 0..20, diversity in 0..15, traffic in
\* 0..15 (in tenths here); the score is within 0..100.
C21_TermsWithinCaps ==
    last.op = "activity_from_data" =>
        /\ density_score(Len(C21_Places)) \in 0..300
        /\ rating_score(SumRatings(C21_Places), RatedCount(C21_Places)) \in 0..200
        /\ review_score(SumReviews(C21_Places)) \in 0..200
        /\ diversity_score(TypeDiversity(C21_Places)) \in 0..150
        /\ traffic_score(CongestionOf(last.traffic)) \in 0..150
        /\ last.result.score \in 0..100

\* the time-series rows of the sector itself
OwnPoints(d, sector) == IF sector \in DOMAIN d.points THEN d.points[sector] ELSE 0

\* C22: the Pricing Trend signal depends only on the number n of
\* time-series points of the requested sector: with n >= 1 the score is
\* 50 + min(1, n/50)*30, with n = 0 it is clamp(0,100,(growth-1)*500+40),
\* whatever data other sectors have (the queries answering).
C22_PricingFromOwnPoints ==
    (/\ last.op = "compute_demand_score" /\ ~last.raised
     /\ db.down \cap {"sector", "time_series_data"} = {})
    => last.result.signals[1].score
         = IF OwnPoints(db, last.sector) >= 1
           THEN 500 + 6 * Min2(50, OwnPoints(db, last.sector))
           ELSE Clamp1000((profile_get(last.sector, "growth_trend", 100) - 100) * 50 + 400)

\* the default duration of a namespace: GeoCacheService keeps one duration,
\* self.ttl, for every namespace
NamespaceTtl(c, api) == c.ttl

\* the step is GeoCacheService.set called with the override ttl, and it
\* wrote its entry
SetWrote(ttl) ==
    /\ CanCall
    /\ last'.op = "cache_set" /\ last'.wrote # {}
    /\ store' = cache_set(svc.cache, storeMode, store, last'.api, last'.lat, last'.lon,
                          last'.data, last'.extra, ttl).st

\* C23: every entry written by GeoCacheService.set carries the TTL override
\* when one is given, otherwise the default duration of its namespace.
C23_TtlOverrideOrDefault ==
    [][\A ttl \in CacheTtls :
         SetWrote(ttl)
         => store'[last'.key].ttl
              = IF ~IsNone(ttl) THEN Val(ttl) ELSE NamespaceTtl(svc.cache, last'.api)]_vars

(***************************************************************************)
(* Requests with coordinates or radii outside the bounds of LocationQuery  *)
(***************************************************************************)
\* 36.75 N and 91 N
BoundLats == GeoLats \cup {910000}

\* 1000 m, and 50 m and 60000 m outside [100, 50000]
BoundRadii == Radii \cup {50, 60000}

RequestBounds(prov) ==
    \/ \E lat \in BoundLats, radius \in BoundRadii, place_type \in PlaceTypes :
           NearbyPlaces(prov, lat, radius, place_type)
    \/ \E lat \in BoundLats : TrafficDensity(prov, lat)
    \/ \E lat \in BoundLats, radius \in BoundRadii : ActivityScore(prov, lat, radius)
    \/ \E lat \in BoundLats, radius \in BoundRadii, place_type \in PlaceTypes :
           AreaIntelligence(prov, lat, radius, place_type)

NextBounds ==
    \/ Build
    \/ RequestBounds(provider)

SpecBounds == Init /\ [][NextBounds]_vars

\* the request recorded in last is outside the input constraints
OutOfBounds ==
    /\ last.op \in {"get_nearby_places", "get_traffic_density", "compute_activity_score",
                    "get_area_intelligence"}
    /\ \/ LocationQuery(last.lat, last.lon, 1000).exc
       \/ last.op # "get_traffic_density" /\ LocationQuery(last.lat, last.lon, last.radius).exc

\* C24: a request with latitude, longitude or radius outside the input
\* constraints is rejected before any provider call and any cache write.
C24_RejectedBeforeEffects ==
    OutOfBounds => last.raised /\ last.calls = {} /\ last.wrote = {}

\* the provider failed in a call the request recorded in last made
ProviderFailedDuring ==
    \/ "places" \in last.calls /\ provider.places \in {"TIMEOUT", "REQUEST_DENIED", "MALFORMED"}
    \/ "directions" \in last.calls /\ provider.traffic \in {"TIMEOUT", "NOT_FOUND", "MALFORMED"}

\* the "score" and "intelligence" keys of the request recorded in last
DerivedKeys ==
    {_build_key(svc.cache.prefix, "score", last.lat, last.lon, ToString(last.radius)),
     _build_key(svc.cache.prefix, "intelligence", last.lat, last.lon,
                intelligence_extra(last.radius, last.place_type))}

\* C25: when the provider fails during compute_activity_score or
\* get_area_intelligence, the request writes no entry to the "score" or
\* "intelligence" namespace.
C25_FailureNotPersisted ==
    (/\ last.op \in {"compute_activity_score", "get_area_intelligence"}
     /\ ProviderFailedDuring)
    => last.wrote \cap DerivedKeys = {}

\* the scores (tenths) of the signals of a DemandScore with the given name
ScoresNamed(ds, name) ==
    {ds.signals[i].score : i \in {j \in 1..Len(ds.signals) : ds.signals[j].name = name}}

\* C26: in every FeasibilityReport that carries an activity score, that
\* score equals the score of the "Area Activity" signal of the embedded
\* DemandScore.
C26_ActivityScoreMatchesSignal ==
    (/\ last.op = "get_feasibility_report" /\ ~last.raised
     /\ ~IsNone(last.result.activity_score))
    => ScoresNamed(last.result.demand_score, "Area Activity")
         = {10 * Val(last.result.activity_score)}

(***************************************************************************)
(* Requests against a cache that holds entries the service did not write   *)
(***************************************************************************)
\* what another writer or an older release left under a key: bytes that are
\* no JSON document, a dict of an older schema, a list of such dicts
OldEntries ==
    <<[kind |-> "garbage"],
      [kind |-> "json", val |-> PyDict([version |-> 1])],
      [kind |-> "json", val |-> PyList(<<[name |-> "Cafe"]>>)]>>

\* the (namespace, qualifier) pairs of the keys the requests read
ServiceSlots ==
    {<<"places", places_extra(radius, None)>> : radius \in Radii}
        \cup {<<"traffic", "">>}
        \cup {<<"score", ToString(radius)>> : radius \in Radii}
        \cup {<<"intelligence", intelligence_extra(radius, None)>> : radius \in Radii}

NextForeign ==
    \/ Build
    \/ \E slot \in ServiceSlots, lat \in GeoLats, i \in DOMAIN OldEntries :
           ForeignWrite(slot[1], lat, GeoLon, slot[2], OldEntries[i])
    \/ Request(provider)

SpecForeign == Init /\ [][NextForeign]_vars

\* C27: whatever is stored under a cache key, get_nearby_places,
\* get_traffic_density, compute_activity_score and get_area_intelligence do
\* not raise.
C27_HitNeverRaises ==
    last.op \in {"get_nearby_places", "get_traffic_density", "compute_activity_score",
                 "get_area_intelligence"}
    => ~last.raised

\* the key of the entry the category request rec reads and writes for itself
OwnKey(rec) ==
    IF rec.op = "get_nearby_places"
    THEN _build_key(svc.cache.prefix, "places", rec.lat, rec.lon,
                    places_extra(rec.radius, rec.place_type))
    ELSE _build_key(svc.cache.prefix, "intelligence", rec.lat, rec.lon,
                    intelligence_extra(rec.radius, rec.place_type))

\* C28: two requests of the same method in the same grid cell that differ in
\* their category (a category filter against another, or against none) do
\* not read or overwrite each other's cache entry: the second one neither
\* looks up a key the first one wrote nor writes the key of the first one.
C28_KeysSeparateQueries ==
    [][(/\ last.op \in {"get_nearby_places", "get_area_intelligence"}
        /\ last'.op = last.op
        /\ last'.lat = last.lat /\ last'.radius = last.radius
        /\ last'.place_type # last.place_type)
       => /\ OwnKey(last') \notin last.wrote
          /\ OwnKey(last) \notin last'.wrote]_vars

\* the congestion level of an optional traffic sample
CongestionOfSample(traffic) ==
    IF IsNone(traffic) THEN None ELSE Some(Val(traffic).congestion_level)

\* C29: in every bundle returned by get_area_intelligence the place count
\* of the activity score is the length of the nearby_places list, and the
\* traffic congestion of the activity score is the congestion level of the
\* traffic sample (absent when the sample is absent).
C29_BundleConsistent ==
    (last.op = "get_area_intelligence" /\ ~last.raised)
    => /\ last.result.activity_score.place_count = Len(last.result.nearby_places)
       /\ last.result.activity_score.traffic_congestion
            = CongestionOfSample(last.result.traffic)

(***************************************************************************)
(* The competition specification: the Competition Density signal of        *)
(* _competition_signal for every number of places found                    *)
(***************************************************************************)
\* count = len(places): the provider's page holds up to 20 places, a cached
\* list any number
CompetitorCounts == 0..60

InitCompetition ==
    /\ settings = Settings([geo |-> TRUE, maps_key |-> Some("AIza-maps"), google_key |-> None])
    /\ svc = Unbuilt
    /\ storeMode = "none"
    /\ store = EmptyStore
    /\ provider = LiveProvider
    /\ db = SeedDb
    /\ tasks = NoTasks
    /\ ncalls = 0
    /\ \E count \in CompetitorCounts : last = [op |-> "places", count |-> count]

\* lines 199-215 applied to the count
Competition ==
    /\ last.op = "places"
    /\ last' = [op |-> "competition", count |-> last.count,
                result |-> competition_geo(last.count)]
    /\ UNCHANGED <<settings, svc, storeMode, store, provider, ncalls, db, tasks>>

NextCompetition == Competition

SpecCompetition == InitCompetition /\ [][NextCompetition]_vars

\* C30: for every competitor count the Competition Density score is at most
\* 80, the score of 6 to 15 competitors; in particular no count above 15
\* scores higher than the counts 6 to 15.
C30_PeakInHealthyBand ==
    last.op = "competition"
    => /\ last.result.score <= 800
       /\ \A count \in 6..15 : last.result.score <= competition_geo(count).score
====
